---- MODULE Spec2Model ----
(***************************************************************************)
(* Verification model of bsrvcore: route table, server facade and thread   *)
(* pool, request task (aspect chain, cookies, finalization) and session    *)
(* map.  Each part has its own specification over the shared variables.    *)
(***************************************************************************)
EXTENDS Integers, Sequences, FiniteSets, TLC

(***************************************************************************)
(* Bounds                                                                  *)
(***************************************************************************)
MaxTemplateDepth == 2
MaxTargetDepth == 2
MaxRegs == 2
MaxPosts == 3
MaxAspects == 2
MaxTaskOps == 2
MaxSessionCalls == 3
MaxClockSteps == 2
MaxCtxReturns == 3
MaxAspectRegs == 3
MaxMessages == 3
MaxCleanerPending == 1
MaxLogCalls == 2

(***************************************************************************)
(* Small helpers                                                           *)
(***************************************************************************)
Null == "null"

SeqsUpTo(S, n) == UNION {[1..k -> S] : k \in 0..n}

IsPrefixSeq(s, t) == Len(s) <= Len(t) /\ SubSeq(t, 1, Len(s)) = s

RECURSIVE FilterNonEmpty(_)
FilterNonEmpty(ws) ==
  IF ws = <<>> THEN <<>>
  ELSE IF Head(ws) = <<>> THEN FilterNonEmpty(Tail(ws))
       ELSE <<Head(ws)>> \o FilterNonEmpty(Tail(ws))

(***************************************************************************)
(* State                                                                   *)
(***************************************************************************)
\* route table (HttpRouteTable)
VARIABLES
  entrance_,                \* method -> (layer path -> layer)
  global_aspects_,          \* sequence of aspect ids
  global_specific_aspects_, \* method -> sequence of aspect ids
  default_handler_,
  default_max_body_size_,
  default_read_expiry_,
  default_write_expiry_,
  aspect_regs,              \* the aspect registrations made so far, in order
  reg_count,                \* number of route registrations made so far
  last_route                \* <<the latest Route call and its result>>, <<>>
                            \* when the table has changed since

routeVars == <<entrance_, global_aspects_, global_specific_aspects_, aspect_regs,
               default_handler_, default_max_body_size_, default_read_expiry_,
               default_write_expiry_, reg_count, last_route>>

\* server facade and thread pool (HttpServer)
VARIABLES
  mtx_,                \* std::shared_mutex: [writer, readers]
  is_running_,
  keep_alive_timeout_,
  header_read_expiry_,
  io_threads_,         \* number of threads running the I/O context
  user_pc,             \* caller thread -> position inside its facade call
  user_call,           \* caller thread -> the call it is in, <<>> if none
  fns,                 \* every function handed to Post so far, by id
  pool_queue,          \* ids waiting in thread_pool_
  timers,              \* ids whose steady_timer is still waiting
  worker_pc,           \* pool thread -> position
  worker_fn            \* pool thread -> id of the function it runs, 0 if none

serverVars == <<mtx_, is_running_, keep_alive_timeout_, header_read_expiry_,
                io_threads_, user_pc, user_call, fns, pool_queue, timers,
                worker_pc, worker_fn>>

poolVars == <<fns, pool_queue, timers, worker_pc, worker_fn>>

\* request task and its connection (HttpServerTask, HttpServerConnection)
VARIABLES
  task,        \* the fields of the HttpServerTask
  task_refs,   \* shared_ptr owners of the task
  conn,        \* the connection the task was created on
  trace,       \* begin and end of every aspect and handler call, in order
  sid_returns, \* the values GetSessionId has returned
  thrown,      \* the aspect and handler calls that have thrown
  log_,        \* levels of the messages handed to the logger
  terminated   \* std::terminate has been called

taskVars == <<task, task_refs, conn, trace, thrown, sid_returns, log_,
             terminated>>

\* session map (SessionMap)
VARIABLES
  session_now,      \* std::chrono::steady_clock::now()
  map_,             \* session id -> [context, expiry]
  pqueue_,          \* Heap of [id, expiry], the vector from index 1 on
  default_timeout_,
  allow_cleaner_,
  ctx_count,        \* Context objects made so far; a Context is named by its number
  session_log,      \* the GetSession and RemoveSession calls made, with results
  timer_,           \* SessionMap::timer_, its wait handler and the cleaning
                    \* functions the handler has posted
  cleaner_interval_

cleanerVars == <<timer_, cleaner_interval_>>

sessionVars == <<session_now, map_, pqueue_, default_timeout_, allow_cleaner_,
                 ctx_count, session_log, cleanerVars>>

\* attribute map (Context)
VARIABLES
  ctx_mtx_,         \* Context::mtx_, a std::shared_mutex: [writer, readers]
  ctx_map_,         \* Context::map_: key -> attribute, Null where absent
  ctx_pc,           \* thread -> position inside its Context call
  ctx_call,         \* thread -> the call it is in, <<>> if none
  ctx_set_done,     \* key -> TRUE once some SetAttribute on it has returned
  ctx_passed,       \* key -> the attributes passed to SetAttribute so far
  ctx_returns       \* every returned Get/HasAttribute: call, result, and
                    \* whether a set of its key had returned before the call

contextVars == <<ctx_mtx_, ctx_map_, ctx_pc, ctx_call, ctx_set_done,
                 ctx_passed, ctx_returns>>

\* Set-Cookie builder (ServerSetCookie)
VARIABLES
  cookie,           \* the builder: each field <<>> when unset, <<v>> when set
  cookie_string     \* <<what ToString returned>> for the builder as it is,
                    \* <<>> when it has not been called since the last setter

cookieVars == <<cookie, cookie_string>>

\* streamed response queue of one connection (MessageQueue)
VARIABLES
  mq_conn,             \* the connection and its queue: closed_, the server's
                    \* running flag as IsServerRunning reads it, queue_,
                    \* is_writing_, queue_size_, connection_dead_, the write
                    \* the stream is carrying out, the ids of the
                    \* messages whose write was started, in order, and
                    \* whether the handler that is running has called
                    \* cv_.notify_all()
  message_queue_,   \* TRUE once the connection has created its queue
  strand_,          \* handlers posted to the connection's strand, oldest first
  next_msg,         \* id of the next message a caller submits
  enq_log,          \* ids in the order their enqueue ran on the strand
  wire,             \* ids of the messages the stream has written, in order
  mq_pc,            \* per caller thread: "idle", "ClearMessage" (in Wait,
                    \* about to test its condition) or "asleep" (in Wait,
                    \* blocked on cv_)
  clear_before,     \* per cycling thread: ids submitted before its ClearMessage
  last_clear        \* <<>>, or at the latest return of ClearMessage <<the ids
                    \* submitted before that call and not on the wire>>

queueVars == <<mq_conn, message_queue_, strand_, next_msg, enq_log, wire, mq_pc,
               clear_before, last_clear>>

\* connection driver (HttpServerConnection, HttpServerConnectionImpl)
VARIABLES
  driver            \* one connection: its members closed_, parser_,
                    \* route_result_, timer_, header_read_expiry_ and
                    \* keep_alive_timeout_; the operation its stream is
                    \* carrying out; the handlers waiting on its strand and
                    \* the one the strand is running; the server's running
                    \* flag; where its task is; the keep-alive of the
                    \* response; whether it has entered a new cycle

driverVars == <<driver>>

\* the latest registration call on the route table and what it returned
VARIABLES
  last_reg          \* <<[op, method, target, ok]>>, <<>> before the first

regVars == <<last_reg>>

\* the parts added after the four above
extraVars == <<contextVars, regVars, cookieVars, queueVars, driverVars>>

\* what the actions of each part leave alone
outsideRoute == <<serverVars, taskVars, sessionVars, extraVars>>
outsideServer == <<taskVars, sessionVars, extraVars>>
outsideSession == <<routeVars, serverVars, taskVars, extraVars>>
outsideContext == <<routeVars, serverVars, taskVars, sessionVars, regVars,
                    cookieVars, queueVars, driverVars>>
outsideReg == <<serverVars, taskVars, sessionVars, contextVars, cookieVars,
                queueVars, driverVars>>
outsideCookie == <<routeVars, serverVars, taskVars, sessionVars, contextVars,
                   regVars, queueVars, driverVars>>
outsideQueue == <<routeVars, serverVars, taskVars, sessionVars, contextVars,
                  regVars, cookieVars, driverVars>>
outsideDriver == <<routeVars, serverVars, taskVars, sessionVars, contextVars,
                   regVars, cookieVars, queueVars>>

(***************************************************************************)
(* Route table (src/src/route/http_route_table.cc)                         *)
(***************************************************************************)
Methods == {"GET", "POST"}

\* handlers are named by tuples; the null pointer is the empty tuple
NullHandler == <<>>

EmptyRouteHandler == <<"EmptyRouteHandler">>

\* the key under which a layer's default (parametric) child is stored
DefaultKey == <<"{">>

NewLayer ==
  [handler |-> NullHandler, aspects |-> <<>>, max_body_size |-> 0,
   read_expiry |-> 0, write_expiry |-> 0, ignore_default_route |-> FALSE]

\* words a template is built from, and words of a request path
TemplateWords == {<<"a">>, <<"{", "}">>}
TargetWords == {<<"a">>, <<"c">>}

\* the method whose trie the route specification registers and looks up
RouteMethods == {"GET"}

RECURSIVE JoinPath(_)
JoinPath(ws) ==
  IF ws = <<>> THEN <<>>
  ELSE <<"/">> \o Head(ws) \o JoinPath(Tail(ws))

TemplateOf(ws) == IF ws = <<>> THEN <<"/">> ELSE JoinPath(ws)

Templates == {TemplateOf(ws) : ws \in SeqsUpTo(TemplateWords, MaxTemplateDepth)}

Targets == SeqsUpTo(TargetWords, MaxTargetDepth)

\* the templates aspects are registered on
AspectTemplates == {TemplateOf(<<<<"a">>>>), TemplateOf(<<<<"a">>, <<"{", "}">>>>)}

\* the request paths looked up after aspect registrations
AspectTargets == {<<<<"a">>>>, <<<<"a">>, <<"c">>>>, <<<<"c">>>>}

\* url | std::views::split('/')
RECURSIVE SplitSlash(_, _)
SplitSlash(chars, cur) ==
  IF chars = <<>> THEN <<cur>>
  ELSE IF Head(chars) = "/" THEN <<cur>> \o SplitSlash(Tail(chars), <<>>)
       ELSE SplitSlash(Tail(chars), Append(cur, Head(chars)))

RECURSIVE UpToQuery(_)
UpToQuery(chars) ==
  IF chars = <<>> \/ Head(chars) = "?" THEN <<>>
  ELSE <<Head(chars)>> \o UpToQuery(Tail(chars))

RECURSIVE BraceBalanced(_, _)
BraceBalanced(chars, count) ==
  IF chars = <<>> THEN count = 0
  ELSE IF Head(chars) = "{" THEN BraceBalanced(Tail(chars), count + 1)
  ELSE IF Head(chars) = "}" THEN count >= 1 /\ BraceBalanced(Tail(chars), count - 1)
  ELSE BraceBalanced(Tail(chars), count)

RECURSIVE NonParamTarget(_, _)
NonParamTarget(chars, in_brace) ==
  IF chars = <<>> THEN <<>>
  ELSE IF Head(chars) = "{" THEN NonParamTarget(Tail(chars), TRUE)
  ELSE IF Head(chars) = "}" THEN NonParamTarget(Tail(chars), FALSE)
  ELSE IF ~in_brace THEN <<Head(chars)>> \o NonParamTarget(Tail(chars), in_brace)
  ELSE NonParamTarget(Tail(chars), in_brace)

HasDotDot(chars) ==
  \E i \in 1..(Len(chars) - 1) : chars[i] = "." /\ chars[i + 1] = "."

\* the regular expression ^/(char|\{name*\})*$ : a '{' opens a name that
\* holds neither '/' nor '{' and is closed by '}', and '}' only closes
RECURSIVE RegexMatch(_, _)
RegexMatch(chars, in_brace) ==
  IF chars = <<>> THEN ~in_brace
  ELSE IF Head(chars) = "{" THEN ~in_brace /\ RegexMatch(Tail(chars), TRUE)
  ELSE IF Head(chars) = "}" THEN in_brace /\ RegexMatch(Tail(chars), FALSE)
  ELSE IF in_brace THEN Head(chars) \notin {"/", ".", "?"} /\ RegexMatch(Tail(chars), TRUE)
  ELSE RegexMatch(Tail(chars), FALSE)

MaxTargetLength == 2048

\* IsValidParametricTarget without the test of the first character
IsValidParametricTarget_NoLeadingSlash(target) ==
  /\ target # <<>>
  /\ Len(target) <= MaxTargetLength
  /\ RegexMatch(Tail(target), FALSE)
  /\ BraceBalanced(target, 0)
  /\ ~HasDotDot(NonParamTarget(target, FALSE))

IsValidParametricTarget(target) ==
  /\ target # <<>>
  /\ Len(target) <= MaxTargetLength
  /\ target[1] = "/"
  /\ RegexMatch(Tail(target), FALSE)
  /\ BraceBalanced(target, 0)
  /\ ~HasDotDot(NonParamTarget(target, FALSE))

\* a template of 2049 characters
LongTemplate == [i \in 1..(MaxTargetLength + 1) |-> IF i = 1 THEN "/" ELSE "a"]

\* templates that are not valid: empty, without the leading '/', too long,
\* with an unclosed, unopened or nested brace, with '..' outside a parameter
InvalidTemplates ==
  {<<>>, <<"a">>, LongTemplate, <<"/", "{", "a">>, <<"/", "a", "}">>,
   <<"/", "{", "{", "a", "}", "}">>, <<"/", ".", ".">>,
   <<"/", "a", "/", ".", ".", "/", "{", "a", "}">>}

\* the templates handed to the registrations
RegTemplates == InvalidTemplates \cup {TemplateOf(<<<<"a">>>>)}
RegLimits == {1000}

GetRoute(layers, path, key) ==
  IF Append(path, key) \in DOMAIN layers /\ key # DefaultKey
  THEN Append(path, key) ELSE Null

GetDefaultRoute(layers, path) ==
  IF Append(path, DefaultKey) \in DOMAIN layers
  THEN Append(path, DefaultKey) ELSE Null

RECURSIVE CreateLayers(_, _, _)
CreateLayers(layers, path, words) ==
  IF words = <<>> THEN [layers |-> layers, path |-> path]
  ELSE LET word == Head(words) IN
    IF word = <<>> THEN CreateLayers(layers, path, Tail(words))
    ELSE IF word[1] = "{" THEN
      LET next == Append(path, DefaultKey) IN
      IF GetDefaultRoute(layers, path) # Null
      THEN CreateLayers(layers, next, Tail(words))
      ELSE CreateLayers(layers @@ (next :> NewLayer), next, Tail(words))
    ELSE
      LET next == Append(path, word) IN
      IF GetRoute(layers, path, word) # Null
      THEN CreateLayers(layers, next, Tail(words))
      ELSE CreateLayers(layers @@ (next :> NewLayer), next, Tail(words))

GetOrCreateRouteTableLayer(layers, target) ==
  CreateLayers(layers, <<>>, SplitSlash(UpToQuery(target), <<>>))

SetHandler(layer, handler) ==
  IF handler = NullHandler THEN layer ELSE [layer EXCEPT !.handler = handler]

\* MatchStep without the ignore_default_route test
MatchStep_NoExclusive(layers, st, seg) ==
  LET loc == Append(st.location, "/") IN
  IF seg = <<>> THEN [st EXCEPT !.location = loc]
  ELSE IF GetRoute(layers, st.layer, seg) # Null THEN
    [st EXCEPT !.layer = GetRoute(layers, st.layer, seg),
               !.location = loc \o seg]
  ELSE IF GetDefaultRoute(layers, st.layer) = Null THEN
    [st EXCEPT !.location = loc, !.status = "fail"]
  ELSE
    [st EXCEPT !.layer = GetDefaultRoute(layers, st.layer),
               !.location = loc \o seg,
               !.parameters = Append(st.parameters, seg)]

\* MatchStep putting a captured segment in front of the parameter list
MatchStep_ParamsReversed(layers, st, seg) ==
  LET loc == Append(st.location, "/") IN
  IF seg = <<>> THEN [st EXCEPT !.location = loc]
  ELSE IF GetRoute(layers, st.layer, seg) # Null THEN
    [st EXCEPT !.layer = GetRoute(layers, st.layer, seg),
               !.location = loc \o seg]
  ELSE IF layers[st.layer].ignore_default_route THEN
    [st EXCEPT !.location = loc, !.status = "break"]
  ELSE IF GetDefaultRoute(layers, st.layer) = Null THEN
    [st EXCEPT !.location = loc, !.status = "fail"]
  ELSE
    [st EXCEPT !.layer = GetDefaultRoute(layers, st.layer),
               !.location = loc \o seg,
               !.parameters = <<seg>> \o st.parameters]

\* MatchStep trying the default child before the literal child
MatchStep_DefaultFirst(layers, st, seg) ==
  LET loc == Append(st.location, "/") IN
  IF seg = <<>> THEN [st EXCEPT !.location = loc]
  ELSE IF GetDefaultRoute(layers, st.layer) # Null
          /\ ~layers[st.layer].ignore_default_route THEN
    [st EXCEPT !.layer = GetDefaultRoute(layers, st.layer),
               !.location = loc \o seg,
               !.parameters = Append(st.parameters, seg)]
  ELSE IF GetRoute(layers, st.layer, seg) # Null THEN
    [st EXCEPT !.layer = GetRoute(layers, st.layer, seg),
               !.location = loc \o seg]
  ELSE IF layers[st.layer].ignore_default_route THEN
    [st EXCEPT !.location = loc, !.status = "break"]
  ELSE
    [st EXCEPT !.location = loc, !.status = "fail"]

\* one iteration of the loop of MatchSegments; st.status is "run" while the
\* loop goes on, "break" after the break and "fail" after return false
MatchStep(layers, st, seg) ==
  LET loc == Append(st.location, "/") IN
  IF seg = <<>> THEN [st EXCEPT !.location = loc]
  ELSE IF GetRoute(layers, st.layer, seg) # Null THEN
    [st EXCEPT !.layer = GetRoute(layers, st.layer, seg),
               !.location = loc \o seg]
  ELSE IF layers[st.layer].ignore_default_route THEN
    [st EXCEPT !.location = loc, !.status = "break"]
  ELSE IF GetDefaultRoute(layers, st.layer) = Null THEN
    [st EXCEPT !.location = loc, !.status = "fail"]
  ELSE
    [st EXCEPT !.layer = GetDefaultRoute(layers, st.layer),
               !.location = loc \o seg,
               !.parameters = Append(st.parameters, seg)]

MatchInit == [layer |-> <<>>, location |-> <<>>, parameters |-> <<>>, status |-> "run"]

\* the state of MatchSegments after its loop has taken the first n segments
RECURSIVE MatchPrefix(_, _, _)
MatchPrefix(layers, segs, n) ==
  IF n = 0 THEN MatchInit
  ELSE LET st == MatchPrefix(layers, segs, n - 1) IN
    IF st.status = "run" THEN MatchStep(layers, st, segs[n]) ELSE st

MatchSegments(layers, segs) == MatchPrefix(layers, segs, Len(segs))

\* CollectAspects with the aspects of the layer put first
CollectAspects_RouteFirst(layers, path, method) ==
  layers[path].aspects \o global_aspects_ \o global_specific_aspects_[method]

CollectAspects(layers, path, method) ==
  global_aspects_ \o global_specific_aspects_[method] \o layers[path].aspects

BuildDefaultRouteResult(method) ==
  [current_location |-> <<"/">>, parameters |-> <<>>,
   aspects |-> global_aspects_, handler |-> default_handler_,
   max_body_size |-> default_max_body_size_,
   read_expiry |-> default_read_expiry_,
   write_expiry |-> default_write_expiry_]

Route(method, segs) ==
  LET layers == entrance_[method]
      m == MatchSegments(layers, segs)
      layer == layers[m.layer]
  IN IF m.status = "fail" THEN BuildDefaultRouteResult(method)
     ELSE IF layer.handler = NullHandler THEN BuildDefaultRouteResult(method)
     ELSE [current_location |-> m.location, parameters |-> m.parameters,
           aspects |-> CollectAspects(layers, m.layer, method),
           handler |-> layer.handler,
           max_body_size |-> IF layer.max_body_size # 0 THEN layer.max_body_size
                             ELSE default_max_body_size_,
           read_expiry |-> IF layer.read_expiry # 0 THEN layer.read_expiry
                           ELSE default_read_expiry_,
           write_expiry |-> IF layer.write_expiry # 0 THEN layer.write_expiry
                            ELSE default_write_expiry_]

\* HttpRouteTable::AddRouteEntry / AddExclusiveRouteEntry as a function of
\* the table: the new entrance_
EntranceAfterAdd(method, target, handler, exclusive) ==
  IF ~IsValidParametricTarget(target) THEN entrance_
  ELSE LET r == GetOrCreateRouteTableLayer(entrance_[method], target)
           l1 == SetHandler(r.layers[r.path], handler)
           l2 == IF exclusive THEN [l1 EXCEPT !.ignore_default_route = TRUE] ELSE l1
       IN [entrance_ EXCEPT ![method] = [r.layers EXCEPT ![r.path] = l2]]

RouteTableInit ==
  /\ entrance_ = [m \in Methods |-> (<<>> :> NewLayer)]
  /\ global_aspects_ = <<>>
  /\ global_specific_aspects_ = [m \in Methods |-> <<>>]
  /\ aspect_regs = <<>>
  /\ default_handler_ = EmptyRouteHandler
  /\ default_max_body_size_ = 16384
  /\ default_read_expiry_ = 4000
  /\ default_write_expiry_ = 4000
  /\ reg_count = 0
  /\ last_route = <<>>

\* each registration call brings a handler object of its own, named here by
\* the call that brought it
HandlerOf(kind, target) == <<kind>> \o target

AddRouteEntry(method, target) ==
  /\ reg_count < MaxRegs
  /\ entrance_' = EntranceAfterAdd(method, target, HandlerOf("route", target), FALSE)
  /\ reg_count' = reg_count + 1
  /\ last_route' = <<>>
  /\ UNCHANGED <<global_aspects_, global_specific_aspects_, aspect_regs,
                 default_handler_,
                 default_max_body_size_, default_read_expiry_,
                 default_write_expiry_>>

AddExclusiveRouteEntry(method, target) ==
  /\ reg_count < MaxRegs
  /\ entrance_' = EntranceAfterAdd(method, target, HandlerOf("exclusive", target), TRUE)
  /\ reg_count' = reg_count + 1
  /\ last_route' = <<>>
  /\ UNCHANGED <<global_aspects_, global_specific_aspects_, aspect_regs,
                 default_handler_,
                 default_max_body_size_, default_read_expiry_,
                 default_write_expiry_>>

\* each aspect registration brings an aspect object of its own, named here
\* by the number of the registration
NextAspect == <<"aspect", Len(aspect_regs) + 1>>

\* HttpRouteTableLayer::AddAspect
LayerAddAspect(layer, aspect) == [layer EXCEPT !.aspects = Append(@, aspect)]

\* HttpRouteTable::AddAspect
AddAspect(method, target) ==
  /\ Len(aspect_regs) < MaxAspectRegs
  /\ IF ~IsValidParametricTarget(target)
     THEN UNCHANGED <<entrance_, aspect_regs>>
     ELSE LET r == GetOrCreateRouteTableLayer(entrance_[method], target) IN
          /\ entrance_' =
               [entrance_ EXCEPT ![method] =
                  [r.layers EXCEPT ![r.path] = LayerAddAspect(@, NextAspect)]]
          /\ aspect_regs' = Append(aspect_regs,
                                   [scope |-> "route", method |-> method,
                                    target |-> target, aspect |-> NextAspect])
  /\ last_route' = <<>>
  /\ UNCHANGED <<global_aspects_, global_specific_aspects_, default_handler_,
                 default_max_body_size_, default_read_expiry_,
                 default_write_expiry_, reg_count>>

\* HttpRouteTable::AddGlobalAspect(method, aspect)
AddMethodGlobalAspect(method) ==
  /\ Len(aspect_regs) < MaxAspectRegs
  /\ global_specific_aspects_' =
       [global_specific_aspects_ EXCEPT ![method] = Append(@, NextAspect)]
  /\ aspect_regs' = Append(aspect_regs,
                           [scope |-> "method", method |-> method,
                            target |-> <<>>, aspect |-> NextAspect])
  /\ last_route' = <<>>
  /\ UNCHANGED <<entrance_, global_aspects_, default_handler_,
                 default_max_body_size_, default_read_expiry_,
                 default_write_expiry_, reg_count>>

\* HttpRouteTable::AddGlobalAspect(aspect)
AddGlobalAspect ==
  /\ Len(aspect_regs) < MaxAspectRegs
  /\ global_aspects_' = Append(global_aspects_, NextAspect)
  /\ aspect_regs' = Append(aspect_regs,
                           [scope |-> "global", method |-> "",
                            target |-> <<>>, aspect |-> NextAspect])
  /\ last_route' = <<>>
  /\ UNCHANGED <<entrance_, global_specific_aspects_, default_handler_,
                 default_max_body_size_, default_read_expiry_,
                 default_write_expiry_, reg_count>>

\* HttpRouteTable::SetMaxBodySize / SetReadExpiry / SetWriteExpiry on a
\* route as a function of the table: the new entrance_
EntranceAfterSet(method, target, field, value) ==
  IF ~IsValidParametricTarget(target) THEN entrance_
  ELSE LET r == GetOrCreateRouteTableLayer(entrance_[method], target)
           l == r.layers[r.path]
           l1 == CASE field = "max_body_size" -> [l EXCEPT !.max_body_size = value]
                   [] field = "read_expiry" -> [l EXCEPT !.read_expiry = value]
                   [] field = "write_expiry" -> [l EXCEPT !.write_expiry = value]
       IN [entrance_ EXCEPT ![method] = [r.layers EXCEPT ![r.path] = l1]]

SetMaxBodySize(method, target, max_body_size) ==
  /\ entrance_' = EntranceAfterSet(method, target, "max_body_size", max_body_size)
  /\ last_route' = <<>>
  /\ UNCHANGED <<global_aspects_, global_specific_aspects_, aspect_regs,
                 default_handler_, default_max_body_size_, default_read_expiry_,
                 default_write_expiry_, reg_count>>

SetReadExpiry(method, target, expiry) ==
  /\ entrance_' = EntranceAfterSet(method, target, "read_expiry", expiry)
  /\ last_route' = <<>>
  /\ UNCHANGED <<global_aspects_, global_specific_aspects_, aspect_regs,
                 default_handler_, default_max_body_size_, default_read_expiry_,
                 default_write_expiry_, reg_count>>

SetWriteExpiry(method, target, expiry) ==
  /\ entrance_' = EntranceAfterSet(method, target, "write_expiry", expiry)
  /\ last_route' = <<>>
  /\ UNCHANGED <<global_aspects_, global_specific_aspects_, aspect_regs,
                 default_handler_, default_max_body_size_, default_read_expiry_,
                 default_write_expiry_, reg_count>>

\* what a registration on a template returns: false for an invalid
\* template, true once the layer was found or created and written
RegistrationReturn(target) == IsValidParametricTarget(target)

DoRouteLookup(method, segs) ==
  /\ last_route' = <<[method |-> method, target |-> segs,
                      result |-> Route(method, segs)]>>
  /\ UNCHANGED <<entrance_, global_aspects_, global_specific_aspects_,
                 aspect_regs,
                 default_handler_, default_max_body_size_, default_read_expiry_,
                 default_write_expiry_, reg_count>>

(***************************************************************************)
(* Server facade and thread pool (HttpServer)                              *)
(***************************************************************************)
\* caller threads of the facade and the threads of thread_pool_
Users == {"u1", "u2"}
Workers == {"w1"}
NoThread == "none"

\* arguments the callers pass
StartThreadCounts == {0, 1}
FacadeHandlers == {<<"h1">>}
FacadeTimeouts == {1000}
FacadeTemplates == {TemplateOf(<<<<"a">>>>)}
FacadeMutations ==
  {<<"SetDefaultHandler", h>> : h \in FacadeHandlers}
    \cup {<<"SetKeepAliveTimeout", t>> : t \in FacadeTimeouts}
    \cup {<<"AddRouteEntry", "GET", t>> : t \in FacadeTemplates}
\* a posted function either only counts, or calls HttpServer::Post itself
FnKinds == {"plain", "repost"}

\* std::shared_lock / std::unique_lock on mtx_
CanLockShared == mtx_.writer = NoThread
CanLockUnique == mtx_.writer = NoThread /\ mtx_.readers = {}
LockShared(t) == [mtx_ EXCEPT !.readers = @ \cup {t}]
UnlockShared(t) == [mtx_ EXCEPT !.readers = @ \ {t}]
LockUnique(t) == [mtx_ EXCEPT !.writer = t]
UnlockUnique == [mtx_ EXCEPT !.writer = NoThread]

ServerInit ==
  /\ mtx_ = [writer |-> NoThread, readers |-> {}]
  /\ is_running_ = FALSE
  /\ keep_alive_timeout_ = 4000
  /\ header_read_expiry_ = 3000
  /\ io_threads_ = 0
  /\ user_pc = [u \in Users |-> "idle"]
  /\ user_call = [u \in Users |-> <<>>]
  /\ fns = <<>>
  /\ pool_queue = <<>>
  /\ timers = {}
  /\ worker_pc = [w \in Workers |-> "idle"]
  /\ worker_fn = [w \in Workers |-> 0]

\* HttpServer::Start: up to the acquisition of the unique lock
StartEnter(u, thread_cnt) ==
  /\ user_pc[u] = "idle"
  /\ IF thread_cnt = 0
     THEN UNCHANGED <<mtx_, user_pc, user_call>>
     ELSE /\ CanLockUnique
          /\ mtx_' = LockUnique(u)
          /\ user_pc' = [user_pc EXCEPT ![u] = "start"]
          /\ user_call' = [user_call EXCEPT ![u] = <<"Start", thread_cnt>>]
  /\ UNCHANGED <<is_running_, keep_alive_timeout_, header_read_expiry_,
                 io_threads_, poolVars, routeVars, outsideServer>>

\* HttpServer::Start: the body under the unique lock
StartBody(u) ==
  /\ user_pc[u] = "start"
  /\ IF is_running_
     THEN UNCHANGED <<is_running_, io_threads_>>
     ELSE /\ is_running_' = TRUE
          /\ io_threads_' = user_call[u][2]
  /\ mtx_' = UnlockUnique
  /\ user_pc' = [user_pc EXCEPT ![u] = "idle"]
  /\ user_call' = [user_call EXCEPT ![u] = <<>>]
  /\ UNCHANGED <<keep_alive_timeout_, header_read_expiry_, poolVars, routeVars, outsideServer>>

\* HttpServer::Stop: up to the acquisition of the unique lock
StopEnter(u) ==
  /\ user_pc[u] = "idle"
  /\ CanLockUnique
  /\ mtx_' = LockUnique(u)
  /\ user_pc' = [user_pc EXCEPT ![u] = "stop"]
  /\ user_call' = [user_call EXCEPT ![u] = <<"Stop">>]
  /\ UNCHANGED <<is_running_, keep_alive_timeout_, header_read_expiry_,
                 io_threads_, poolVars, routeVars, outsideServer>>

\* HttpServer::Stop: the running check and the clearing of the flag
StopBody(u) ==
  /\ user_pc[u] = "stop"
  /\ IF ~is_running_
     THEN /\ mtx_' = UnlockUnique
          /\ user_pc' = [user_pc EXCEPT ![u] = "idle"]
          /\ user_call' = [user_call EXCEPT ![u] = <<>>]
          /\ UNCHANGED is_running_
     ELSE /\ is_running_' = FALSE
          /\ user_pc' = [user_pc EXCEPT ![u] = "stop_join"]
          /\ UNCHANGED <<mtx_, user_call>>
  /\ UNCHANGED <<keep_alive_timeout_, header_read_expiry_, io_threads_,
                 poolVars, routeVars, outsideServer>>

\* thread_pool_->join() returns once the pool has no work left (a waiting
\* timer is outstanding work) and no function running
PoolJoinable ==
  /\ pool_queue = <<>>
  /\ timers = {}
  /\ \A w \in DOMAIN worker_pc : worker_pc[w] = "idle"
  /\ timer_.pool = "live" => timer_.wait = "none"
  /\ timer_.handlers = 0
  /\ timer_.posted = 0

\* HttpServer::Stop: the joins, the rebuilding of the pools and the return
StopJoin(u) ==
  /\ user_pc[u] = "stop_join"
  /\ PoolJoinable
  /\ io_threads_' = 0
  /\ timer_' = [timer_ EXCEPT !.pool = "destroyed"]
  /\ mtx_' = UnlockUnique
  /\ user_pc' = [user_pc EXCEPT ![u] = "idle"]
  /\ user_call' = [user_call EXCEPT ![u] = <<>>]
  /\ UNCHANGED <<is_running_, keep_alive_timeout_, header_read_expiry_,
                 poolVars, routeVars, taskVars, extraVars, session_now, map_,
                 pqueue_, default_timeout_, allow_cleaner_, ctx_count,
                 session_log, cleaner_interval_>>

\* HttpRouteTable::SetDefaultHandler
SetDefaultHandler(handler) ==
  /\ default_handler_' = handler
  /\ last_route' = <<>>
  /\ UNCHANGED <<entrance_, global_aspects_, global_specific_aspects_,
                 aspect_regs,
                 default_max_body_size_, default_read_expiry_,
                 default_write_expiry_, reg_count>>

\* route registrations the callers inside a mutator are about to make
PendingRegs ==
  Cardinality({u \in Users : user_pc[u] = "mut" /\ user_call[u][1] = "AddRouteEntry"})

\* a facade mutator (HttpServer::SetDefaultHandler, SetKeepAliveTimeout,
\* AddRouteEntry): up to the acquisition of the shared lock
MutatorEnter(u, call) ==
  /\ user_pc[u] = "idle"
  /\ call[1] = "AddRouteEntry" => reg_count + PendingRegs < MaxRegs
  /\ CanLockShared
  /\ mtx_' = LockShared(u)
  /\ user_pc' = [user_pc EXCEPT ![u] = "mut"]
  /\ user_call' = [user_call EXCEPT ![u] = call]
  /\ UNCHANGED <<is_running_, keep_alive_timeout_, header_read_expiry_,
                 io_threads_, poolVars, routeVars, outsideServer>>

\* the mutation a facade mutator makes when the server is not running
ApplyMutation(call) ==
  CASE call[1] = "SetDefaultHandler" ->
         SetDefaultHandler(call[2]) /\ UNCHANGED keep_alive_timeout_
    [] call[1] = "SetKeepAliveTimeout" ->
         keep_alive_timeout_' = call[2] /\ UNCHANGED routeVars
    [] call[1] = "AddRouteEntry" ->
         AddRouteEntry(call[2], call[3]) /\ UNCHANGED keep_alive_timeout_

\* the same mutator without the running check
MutatorBody_Ungated(u) ==
  /\ user_pc[u] = "mut"
  /\ ApplyMutation(user_call[u])
  /\ mtx_' = UnlockShared(u)
  /\ user_pc' = [user_pc EXCEPT ![u] = "idle"]
  /\ user_call' = [user_call EXCEPT ![u] = <<>>]
  /\ UNCHANGED <<is_running_, header_read_expiry_, io_threads_, poolVars,
                 outsideServer>>

\* a facade mutator: the body under the shared lock
MutatorBody(u) ==
  /\ user_pc[u] = "mut"
  /\ IF is_running_
     THEN UNCHANGED <<keep_alive_timeout_, routeVars>>
     ELSE ApplyMutation(user_call[u])
  /\ mtx_' = UnlockShared(u)
  /\ user_pc' = [user_pc EXCEPT ![u] = "idle"]
  /\ user_call' = [user_call EXCEPT ![u] = <<>>]
  /\ UNCHANGED <<is_running_, header_read_expiry_, io_threads_, poolVars,
                 outsideServer>>

\* HttpServer::Route: the caller enters HttpRouteTable::Route; no lock is taken
RouteCallEnter(u, method, segs) ==
  /\ user_pc[u] = "idle"
  /\ user_pc' = [user_pc EXCEPT ![u] = "route"]
  /\ user_call' = [user_call EXCEPT ![u] = <<"Route", method, segs>>]
  /\ UNCHANGED <<mtx_, is_running_, keep_alive_timeout_, header_read_expiry_,
                 io_threads_, poolVars, routeVars, outsideServer>>

\* HttpServer::Route: the lookup is made and the result returned
RouteCallReturn(u) ==
  /\ user_pc[u] = "route"
  /\ DoRouteLookup(user_call[u][2], user_call[u][3])
  /\ user_pc' = [user_pc EXCEPT ![u] = "idle"]
  /\ user_call' = [user_call EXCEPT ![u] = <<>>]
  /\ UNCHANGED <<mtx_, is_running_, keep_alive_timeout_, header_read_expiry_,
                 io_threads_, poolVars, outsideServer>>

\* ids still owed to Post calls that are certain to come: callers inside
\* Post, and accepted functions that will call Post and have not yet
PostsOwed ==
  Cardinality({u \in Users : user_pc[u] \in {"post", "timer"}})
  + Cardinality({u \in Users : user_pc[u] = "post" /\ user_call[u][2] = "repost"})
  + Cardinality({i \in 1..Len(fns) :
                   fns[i].kind = "repost" /\ fns[i].accepted /\ ~fns[i].reposted})

PostCost(kind) == IF kind = "repost" THEN 2 ELSE 1

\* HttpServer::Post without the running check: the function is handed to
\* the pool whatever the state of the server
PostUnderLock_NoRunningCheck(kind) ==
  /\ fns' = Append(fns, [kind |-> kind, via |-> "Post",
                         accepted |-> is_running_,
                         executed |-> 0, reposted |-> FALSE])
  /\ pool_queue' = Append(pool_queue, Len(fns) + 1)
  /\ UNCHANGED timers

\* HttpServer::Post: the running check and boost::asio::post
PostUnderLock(kind) ==
  /\ fns' = Append(fns, [kind |-> kind, via |-> "Post",
                         accepted |-> is_running_,
                         executed |-> 0, reposted |-> FALSE])
  /\ pool_queue' = IF is_running_ THEN Append(pool_queue, Len(fns) + 1)
                   ELSE pool_queue
  /\ UNCHANGED timers

\* HttpServer::Post called by a caller thread: up to the shared lock
PostEnter(u, kind) ==
  /\ user_pc[u] = "idle"
  /\ Len(fns) + PostsOwed + PostCost(kind) <= MaxPosts
  /\ CanLockShared
  /\ mtx_' = LockShared(u)
  /\ user_pc' = [user_pc EXCEPT ![u] = "post"]
  /\ user_call' = [user_call EXCEPT ![u] = <<"Post", kind>>]
  /\ UNCHANGED <<is_running_, keep_alive_timeout_, header_read_expiry_,
                 io_threads_, poolVars, routeVars, outsideServer>>

\* HttpServer::Post called by a caller thread: the body under the lock
PostBody(u) ==
  /\ user_pc[u] = "post"
  /\ PostUnderLock(user_call[u][2])
  /\ mtx_' = UnlockShared(u)
  /\ user_pc' = [user_pc EXCEPT ![u] = "idle"]
  /\ user_call' = [user_call EXCEPT ![u] = <<>>]
  /\ UNCHANGED <<is_running_, keep_alive_timeout_, header_read_expiry_,
                 io_threads_, worker_pc, worker_fn, routeVars, outsideServer>>

\* HttpServer::SetTimer: the running check and the arming of a steady_timer
\* on the executor of thread_pool_
SetTimerUnderLock ==
  /\ fns' = Append(fns, [kind |-> "plain", via |-> "SetTimer",
                         accepted |-> is_running_,
                         executed |-> 0, reposted |-> FALSE])
  /\ timers' = IF is_running_ THEN timers \cup {Len(fns) + 1} ELSE timers
  /\ UNCHANGED pool_queue

\* HttpServer::SetTimer called by a caller thread: up to the shared lock
SetTimerEnter(u) ==
  /\ user_pc[u] = "idle"
  /\ Len(fns) + PostsOwed + 1 <= MaxPosts
  /\ CanLockShared
  /\ mtx_' = LockShared(u)
  /\ user_pc' = [user_pc EXCEPT ![u] = "timer"]
  /\ user_call' = [user_call EXCEPT ![u] = <<"SetTimer">>]
  /\ UNCHANGED <<is_running_, keep_alive_timeout_, header_read_expiry_,
                 io_threads_, poolVars, routeVars, outsideServer>>

\* HttpServer::SetTimer called by a caller thread: the body under the lock
SetTimerBody(u) ==
  /\ user_pc[u] = "timer"
  /\ SetTimerUnderLock
  /\ mtx_' = UnlockShared(u)
  /\ user_pc' = [user_pc EXCEPT ![u] = "idle"]
  /\ user_call' = [user_call EXCEPT ![u] = <<>>]
  /\ UNCHANGED <<is_running_, keep_alive_timeout_, header_read_expiry_,
                 io_threads_, worker_pc, worker_fn, routeVars, outsideServer>>

\* the timer of function i expires without error: its wait handler, which
\* calls the function, becomes ready on the pool
TimerExpire(i) ==
  /\ i \in timers
  /\ timers' = timers \ {i}
  /\ pool_queue' = Append(pool_queue, i)
  /\ UNCHANGED <<mtx_, is_running_, keep_alive_timeout_, header_read_expiry_,
                 io_threads_, user_pc, user_call, fns, worker_pc, worker_fn,
                 routeVars, outsideServer>>

\* a pool thread takes the oldest waiting function and invokes it
WorkerTake(w) ==
  /\ worker_pc[w] = "idle"
  /\ pool_queue # <<>>
  /\ worker_pc' = [worker_pc EXCEPT ![w] = "run"]
  /\ worker_fn' = [worker_fn EXCEPT ![w] = Head(pool_queue)]
  /\ fns' = [fns EXCEPT ![Head(pool_queue)].executed = @ + 1]
  /\ pool_queue' = Tail(pool_queue)
  /\ UNCHANGED <<mtx_, is_running_, keep_alive_timeout_, header_read_expiry_,
                 io_threads_, user_pc, user_call, timers, routeVars,
                 outsideServer>>

\* the running function calls HttpServer::Post: up to the shared lock
WorkerPostEnter(w) ==
  /\ worker_pc[w] = "run"
  /\ fns[worker_fn[w]].kind = "repost"
  /\ CanLockShared
  /\ mtx_' = LockShared(w)
  /\ worker_pc' = [worker_pc EXCEPT ![w] = "post"]
  /\ UNCHANGED <<is_running_, keep_alive_timeout_, header_read_expiry_,
                 io_threads_, user_pc, user_call, fns, pool_queue, timers,
                 worker_fn, routeVars, outsideServer>>

\* the running function calls HttpServer::Post: the body under the lock
WorkerPostBody(w) ==
  /\ worker_pc[w] = "post"
  /\ fns' = Append([fns EXCEPT ![worker_fn[w]].reposted = TRUE],
                   [kind |-> "plain", via |-> "Post",
                    accepted |-> is_running_,
                    executed |-> 0, reposted |-> FALSE])
  /\ pool_queue' = IF is_running_ THEN Append(pool_queue, Len(fns) + 1)
                   ELSE pool_queue
  /\ UNCHANGED timers
  /\ mtx_' = UnlockShared(w)
  /\ worker_pc' = [worker_pc EXCEPT ![w] = "ret"]
  /\ UNCHANGED <<is_running_, keep_alive_timeout_, header_read_expiry_,
                 io_threads_, user_pc, user_call, worker_fn, routeVars,
                 outsideServer>>

\* the running function returns to the pool thread
WorkerReturn(w) ==
  /\ \/ worker_pc[w] = "ret"
     \/ worker_pc[w] = "run" /\ fns[worker_fn[w]].kind = "plain"
  /\ worker_pc' = [worker_pc EXCEPT ![w] = "idle"]
  /\ worker_fn' = [worker_fn EXCEPT ![w] = 0]
  /\ UNCHANGED <<mtx_, is_running_, keep_alive_timeout_, header_read_expiry_,
                 io_threads_, user_pc, user_call, fns, pool_queue, timers,
                 routeVars, outsideServer>>

(***************************************************************************)
(* Request task (HttpServerTask) and its connection                        *)
(***************************************************************************)
\* the pool threads that run the chain, the thread that runs the
\* connection's handlers, and the thread that stops the server
TaskWorkers == {"w1", "w2"}
IoThread == "io"
TaskUsers == {"u1"}

\* the cookie pairs SplitCookieHeaderUsingSplit and ParseCookiePairView yield
\* for the Cookie header of the request
RequestCookies ==
  {<<<<"theme", "dark">>>>, <<<<"sessionId", "abc">>>>}

CookieKeys == {"sessionId"}
ExceptionKinds == {"std::exception", "other"}
WriteResults == {"ok", "error"}

ToLowerString(s) ==
  CASE s = "sessionId" -> "sessionid"
    [] s = "SESSIONID" -> "sessionid"
    [] OTHER -> s

\* boost::uuids::to_string of a random uuid: not empty, not sent by any client
GenerateSessionId == "uuid"

NoClosure == <<>>

\* the closure a chain function hands to Post in place of the next one
PostedBy_Ascending(c, n) ==
  CASE c[1] = "Start" -> <<"DoPreService", 0>>
    [] c[1] = "DoPreService" ->
         IF c[2] = n THEN <<"DoService">> ELSE <<"DoPreService", c[2] + 1>>
    [] c[1] = "DoService" ->
         IF n # 0 THEN <<"DoPostService", 0>> ELSE NoClosure
    [] c[1] = "DoPostService" ->
         IF c[2] # n - 1 THEN <<"DoPostService", c[2] + 1>> ELSE NoClosure

\* the closure a chain function hands to Post
PostedBy(c, n) ==
  CASE c[1] = "Start" -> <<"DoPreService", 0>>
    [] c[1] = "DoPreService" ->
         IF c[2] = n THEN <<"DoService">> ELSE <<"DoPreService", c[2] + 1>>
    [] c[1] = "DoService" ->
         IF n # 0 THEN <<"DoPostService", n - 1>> ELSE NoClosure
    [] c[1] = "DoPostService" ->
         IF c[2] # 0 THEN <<"DoPostService", c[2] - 1>> ELSE NoClosure

\* the aspect or handler call a chain function makes before it posts
CallOf(c, n) ==
  CASE c[1] = "DoPreService" -> IF c[2] < n THEN <<"pre", c[2]>> ELSE <<>>
    [] c[1] = "DoService" -> <<"handler">>
    [] c[1] = "DoPostService" -> <<"post", c[2]>>
    [] OTHER -> <<>>

\* HttpServerTask::HttpServerTask, inside DoForwardRequest
NewTask(n, cookie_pairs) ==
  [aspects |-> n,
   req_cookies |-> cookie_pairs,
   cookies_ |-> <<>>,
   sessionid_ |-> <<>>,
   set_cookies_ |-> <<>>,
   resp_set_cookie |-> <<>>,
   keep_alive_ |-> TRUE,
   manual_connection_management_ |-> FALSE,
   manual_calls |-> <<>>,    \* arguments of the SetManualConnectionManagement calls
   ops |-> 0,                \* task operations made by the handlers so far
   alive |-> TRUE]

NewConn == [closed_ |-> FALSE, responses |-> <<>>, writing |-> FALSE, cycles |-> 0]

\* the state in which DoForwardRequest has built the task and is about to
\* call Start, on a running server
TaskStateInit ==
  /\ \E n \in 0..MaxAspects, cp \in RequestCookies : task = NewTask(n, cp)
  /\ task_refs = 1
  /\ conn = NewConn
  /\ trace = <<>>
  /\ thrown = {}
  /\ sid_returns = {}
  /\ log_ = <<>>
  /\ terminated = FALSE

\* the same variables when no task exists
NoTaskInit ==
  /\ task = NewTask(0, <<>>)
  /\ task_refs = 0
  /\ conn = NewConn
  /\ trace = <<>>
  /\ thrown = {}
  /\ sid_returns = {}
  /\ log_ = <<>>
  /\ terminated = FALSE

\* a Cookie header is a sequence of words and of the characters ';', '=',
\* ' ' and '"'; a word is never split
RequestCookieHeaders ==
  {<<"a", "=", "1", ";", " ", "sessionId", "=", "abc", ";", " ", "b", "=", "2">>,
   <<"SESSIONID", " ", "=", "\"", "xyz", "\"", ";", ";", "=", "1">>}

\* helper::TrimView
RECURSIVE TrimLeft(_)
TrimLeft(sv) ==
  IF sv # <<>> /\ Head(sv) = " " THEN TrimLeft(Tail(sv)) ELSE sv

RECURSIVE TrimRight(_)
TrimRight(sv) ==
  IF sv # <<>> /\ sv[Len(sv)] = " " THEN TrimRight(SubSeq(sv, 1, Len(sv) - 1))
  ELSE sv

TrimView(sv) == TrimRight(TrimLeft(sv))

\* header | views::split(';'), each piece trimmed
RECURSIVE SplitSemicolon(_, _)
SplitSemicolon(chars, cur) ==
  IF chars = <<>> THEN <<cur>>
  ELSE IF Head(chars) = ";" THEN <<cur>> \o SplitSemicolon(Tail(chars), <<>>)
       ELSE SplitSemicolon(Tail(chars), Append(cur, Head(chars)))

SplitCookieHeaderUsingSplit(header) ==
  LET pieces == SplitSemicolon(header, <<>>) IN
    [i \in 1..Len(pieces) |-> TrimView(pieces[i])]

\* token.find('='): the index of the first '=', 0 for npos
RECURSIVE FindEq(_, _)
FindEq(token, i) ==
  IF i > Len(token) THEN 0
  ELSE IF token[i] = "=" THEN i ELSE FindEq(token, i + 1)

\* the text of a piece that holds at most one word
WordOf(sv) == IF sv = <<>> THEN "" ELSE sv[1]

\* helper::ParseCookiePairView
ParseCookiePairView(tok) ==
  LET token == TrimView(tok)
      eq == FindEq(token, 1)
      name == TrimView(SubSeq(token, 1, eq - 1))
      value == TrimView(SubSeq(token, eq + 1, Len(token)))
      unquoted == IF Len(value) >= 2 /\ value[1] = "\"" /\ value[Len(value)] = "\""
                  THEN SubSeq(value, 2, Len(value) - 1) ELSE value
  IN IF token = <<>> THEN <<"", "">>
     ELSE IF eq = 0 THEN <<WordOf(token), "">>
     ELSE <<WordOf(name), WordOf(unquoted)>>

\* the pairs the loop of GenerateCookiePairs goes through
CookieHeaderPairs(header) ==
  LET strs == SplitCookieHeaderUsingSplit(header) IN
    [i \in 1..Len(strs) |-> ParseCookiePairView(strs[i])]

\* a task without aspects for each Cookie header
CookieTaskInit ==
  /\ \E h \in RequestCookieHeaders : task = NewTask(0, CookieHeaderPairs(h))
  /\ task_refs = 1
  /\ conn = NewConn
  /\ trace = <<>>
  /\ thrown = {}
  /\ sid_returns = {}
  /\ log_ = <<>>
  /\ terminated = FALSE

\* HttpServerTask::GenerateCookiePairs
RECURSIVE GenerateCookiePairs(_, _)
GenerateCookiePairs(pairs, cookies) ==
  IF pairs = <<>> THEN cookies
  ELSE GenerateCookiePairs(
         Tail(pairs),
         IF Head(pairs)[1] # "" THEN (Head(pairs)[1] :> Head(pairs)[2]) @@ cookies
         ELSE cookies)

\* ServerSetCookie::ServerSetCookie: every std::optional field is empty
NewServerSetCookie ==
  [name_ |-> <<>>, value_ |-> <<>>, expiry_ |-> <<>>, path_ |-> <<>>,
   domain_ |-> <<>>, max_age_ |-> <<>>, same_site_ |-> <<>>, secure_ |-> <<>>,
   http_only_ |-> <<>>]

\* has_value() && !value().empty()
HasText(field) == field # <<>> /\ field[1] # ""

\* std::to_string of a Max-Age
Int64ToString(n) ==
  CASE n = 3600 -> "3600"
    [] n = 0 -> "0"

\* the closing loop of ToString: pops ';' and white space off the end
RECURSIVE TrimTail(_)
TrimTail(result) ==
  IF result # <<>> /\ result[Len(result)] \in {";", " "}
  THEN TrimTail(SubSeq(result, 1, Len(result) - 1))
  ELSE result

\* ServerSetCookie::ToString; the text is a sequence of words and of the
\* characters ';' and ' ', and the empty string is <<>>
CookieToString(c) ==
  IF c.name_ = <<>> \/ c.value_ = <<>> THEN <<>>
  ELSE IF c.name_[1] = "" \/ c.value_[1] = "" THEN <<>>
  ELSE TrimTail(
    <<c.name_[1], c.value_[1], ";">>
    \o (IF HasText(c.expiry_) THEN <<" ", "Expires=", c.expiry_[1], ";">> ELSE <<>>)
    \o (IF HasText(c.path_) THEN <<" ", "Path=", c.path_[1], ";">> ELSE <<>>)
    \o (IF HasText(c.domain_) THEN <<" ", "Domain=", c.domain_[1], ";">> ELSE <<>>)
    \o (IF c.max_age_ # <<>>
        THEN <<" ", "Max-Age=", Int64ToString(c.max_age_[1]), ";">> ELSE <<>>)
    \o (IF c.same_site_ # <<>>
        THEN <<" ", "SameSite=", c.same_site_[1], ";">> ELSE <<>>)
    \o (IF c.same_site_ = <<"None">> \/ c.secure_ = <<TRUE>>
        THEN <<" ", "Secure", ";">> ELSE <<>>)
    \o (IF c.http_only_ = <<TRUE>> THEN <<" ", "HttpOnly", ";">> ELSE <<>>))

\* HttpServerTask::GetCookie
GetCookie(key) ==
  LET parsed == GenerateCookiePairs(task.req_cookies, task.cookies_) IN
  /\ task' = [task EXCEPT !.cookies_ = IF key \in DOMAIN parsed THEN parsed
                                       ELSE (key :> "") @@ parsed,
                          !.ops = @ + 1]
  /\ UNCHANGED sid_returns

\* HttpServerTask::GetSessionId
\* the loop over cookies_, a std::unordered_map, stops at the first entry
\* whose lower-cased name is "sessionid"; which of several such entries comes
\* first is not specified
GetSessionId ==
  LET parsed == GenerateCookiePairs(task.req_cookies, task.cookies_)
      found == {k \in DOMAIN parsed : ToLowerString(k) = "sessionid"}
  IN
  \E first \in (IF found = {} THEN {<<>>} ELSE {<<k>> : k \in found}) :
  LET sid1 == IF first # <<>> THEN <<parsed[first[1]]>> ELSE task.sessionid_
      generate == sid1 = <<>>
      sid2 == IF generate THEN <<GenerateSessionId>> ELSE sid1
  IN
  /\ task' = [task EXCEPT
                !.cookies_ = parsed,
                !.sessionid_ = sid2,
                !.set_cookies_ = IF generate
                                 THEN Append(@, [NewServerSetCookie EXCEPT
                                                   !.name_ = <<"sessionId">>,
                                                   !.value_ = <<sid2[1]>>])
                                 ELSE @,
                !.ops = @ + 1]
  /\ sid_returns' = sid_returns \cup {sid2[1]}

\* a setter that stores whatever it is given
SetManualConnectionManagement_NoLatch(value) ==
  /\ task' = [task EXCEPT
                !.manual_connection_management_ = value,
                !.manual_calls = Append(@, value),
                !.ops = @ + 1]
  /\ UNCHANGED sid_returns

\* HttpServerTask::SetManualConnectionManagement
SetManualConnectionManagement(value) ==
  /\ task' = [task EXCEPT
                !.manual_connection_management_ = IF ~@ THEN value ELSE @,
                !.manual_calls = Append(@, value),
                !.ops = @ + 1]
  /\ UNCHANGED sid_returns

\* the task operations a handler or aspect may call
\* the cookie and session operations a handler makes on a request with a
\* session cookie
CookieTaskOps ==
  {<<"GetCookie", k>> : k \in {"a", "sessionId", "SESSIONID"}}
    \cup {<<"GetSessionId">>}

TaskOps ==
  {<<"GetCookie", k>> : k \in CookieKeys}
    \cup {<<"GetSessionId">>}
    \cup {<<"SetManualConnectionManagement", b>> : b \in BOOLEAN}

DoTaskOp(op) ==
  CASE op[1] = "GetCookie" -> GetCookie(op[2])
    [] op[1] = "GetSessionId" -> GetSessionId
    [] op[1] = "SetManualConnectionManagement" -> SetManualConnectionManagement(op[2])

\* HttpServerConnectionImpl::DoWriteResponse, up to the start of the write
DoWriteResponse(c, set_cookie, keep_alive) ==
  IF ~is_running_ \/ c.closed_
  THEN [c EXCEPT !.closed_ = TRUE]
  ELSE [c EXCEPT !.responses = Append(@, [set_cookie |-> set_cookie,
                                          keep_alive |-> keep_alive]),
                 !.writing = TRUE]

RECURSIVE SetCookieStrings(_)
SetCookieStrings(cookies) ==
  IF cookies = <<>> THEN <<>>
  ELSE (IF CookieToString(Head(cookies)) # <<>> THEN <<CookieToString(Head(cookies))>> ELSE <<>>)
       \o SetCookieStrings(Tail(cookies))

\* HttpServerTask::~HttpServerTask
Finalize ==
  IF task.manual_connection_management_
  THEN /\ task' = [task EXCEPT !.alive = FALSE]
       /\ UNCHANGED conn
  ELSE LET strings == SetCookieStrings(task.set_cookies_) IN
       /\ task' = [task EXCEPT !.alive = FALSE, !.resp_set_cookie = strings]
       /\ conn' = DoWriteResponse(conn, strings, task.keep_alive_)

taskServerFrame == <<keep_alive_timeout_, header_read_expiry_, io_threads_,
                     user_pc, user_call, fns, timers, routeVars, sessionVars,
                     extraVars>>

\* a pool thread takes the oldest closure and runs it up to the aspect or
\* handler call, if it makes one
TaskWorkerTake(w) ==
  /\ ~terminated
  /\ worker_pc[w] = "idle"
  /\ pool_queue # <<>>
  /\ LET c == Head(pool_queue) IN
     /\ worker_fn' = [worker_fn EXCEPT ![w] = c]
     /\ IF CallOf(c, task.aspects) # <<>>
        THEN /\ trace' = Append(trace, <<"begin", CallOf(c, task.aspects)>>)
             /\ worker_pc' = [worker_pc EXCEPT ![w] = "user"]
        ELSE /\ UNCHANGED trace
             /\ worker_pc' = [worker_pc EXCEPT ![w] = "post"]
  /\ pool_queue' = Tail(pool_queue)
  /\ UNCHANGED <<mtx_, is_running_, task, task_refs, conn, thrown, sid_returns,
                 log_, terminated, taskServerFrame>>

\* the aspect or handler that is running calls an operation of the task
UserOp(w, op) ==
  /\ ~terminated
  /\ worker_pc[w] = "user"
  /\ task.ops < MaxTaskOps
  /\ DoTaskOp(op)
  /\ UNCHANGED <<mtx_, is_running_, pool_queue, worker_pc, worker_fn, task_refs,
                 conn, trace, thrown, log_, terminated, taskServerFrame>>

\* what the chain function does once its call is over
AfterCall(w) ==
  IF PostedBy(worker_fn[w], task.aspects) # NoClosure THEN "post" ELSE "ret"

\* the aspect or handler call returns
StepReturn(w) ==
  /\ ~terminated
  /\ worker_pc[w] = "user"
  /\ trace' = Append(trace, <<"end", CallOf(worker_fn[w], task.aspects)>>)
  /\ worker_pc' = [worker_pc EXCEPT ![w] = AfterCall(w)]
  /\ UNCHANGED <<mtx_, is_running_, pool_queue, worker_fn, task, task_refs, conn,
                 thrown, sid_returns, log_, terminated, taskServerFrame>>

\* the aspect or handler call throws: FunctionRouteHandler::Service catches
\* std::exception and logs it; nothing catches anything else, and the
\* exception leaves the pool thread
StepThrow(w, ex) ==
  /\ ~terminated
  /\ worker_pc[w] = "user"
  /\ CallOf(worker_fn[w], task.aspects) \notin thrown
  /\ thrown' = thrown \cup {CallOf(worker_fn[w], task.aspects)}
  /\ IF worker_fn[w][1] = "DoService" /\ ex = "std::exception"
     THEN /\ log_' = Append(log_, "warn")
          /\ trace' = Append(trace, <<"end", CallOf(worker_fn[w], task.aspects)>>)
          /\ worker_pc' = [worker_pc EXCEPT ![w] = AfterCall(w)]
          /\ UNCHANGED terminated
     ELSE /\ terminated' = TRUE
          /\ UNCHANGED <<log_, trace, worker_pc>>
  /\ UNCHANGED <<mtx_, is_running_, pool_queue, worker_fn, task, task_refs, conn,
                 sid_returns, taskServerFrame>>

\* HttpServerTask::Post: the closure is built and IsRunning is read
TaskPost(w) ==
  /\ ~terminated
  /\ worker_pc[w] = "post"
  /\ IF is_running_
     THEN /\ task_refs' = task_refs + 1
          /\ worker_pc' = [worker_pc EXCEPT ![w] = "srv_post"]
     ELSE /\ UNCHANGED task_refs
          /\ worker_pc' = [worker_pc EXCEPT ![w] = "ret"]
  /\ UNCHANGED <<mtx_, is_running_, pool_queue, worker_fn, task, conn, trace,
                 thrown, sid_returns, log_, terminated, taskServerFrame>>

\* HttpServer::Post called by HttpServerTask::Post
SrvPost(w) ==
  /\ ~terminated
  /\ worker_pc[w] = "srv_post"
  /\ CanLockShared
  /\ IF is_running_
     THEN /\ pool_queue' = Append(pool_queue, PostedBy(worker_fn[w], task.aspects))
          /\ UNCHANGED task_refs
     ELSE /\ task_refs' = task_refs - 1
          /\ UNCHANGED pool_queue
  /\ worker_pc' = [worker_pc EXCEPT ![w] = "ret"]
  /\ UNCHANGED <<mtx_, is_running_, worker_fn, task, conn, trace, thrown,
                 sid_returns, log_, terminated, taskServerFrame>>

\* the chain function returns and its closure is destroyed; the last owner
\* of the task runs the destructor
ClosureReturn(w) ==
  /\ ~terminated
  /\ worker_pc[w] = "ret"
  /\ task_refs' = task_refs - 1
  /\ IF task_refs = 1 THEN Finalize ELSE UNCHANGED <<task, conn>>
  /\ worker_pc' = [worker_pc EXCEPT ![w] = "idle"]
  /\ worker_fn' = [worker_fn EXCEPT ![w] = NoClosure]
  /\ UNCHANGED <<mtx_, is_running_, pool_queue, trace, thrown, sid_returns,
                 log_, terminated, taskServerFrame>>

\* the completion handler of the response write
WriteCompleted(ec) ==
  /\ ~terminated
  /\ conn.writing
  /\ LET keep_alive == conn.responses[Len(conn.responses)].keep_alive IN
     conn' = IF ec # "ok" \/ ~keep_alive \/ ~is_running_ \/ conn.closed_
             THEN [conn EXCEPT !.writing = FALSE, !.closed_ = TRUE]
             ELSE [conn EXCEPT !.writing = FALSE, !.cycles = @ + 1]
  /\ UNCHANGED <<mtx_, is_running_, pool_queue, worker_pc, worker_fn, task,
                 task_refs, trace, thrown, sid_returns, log_, terminated,
                 taskServerFrame>>

\* HttpServer::Stop called while the task is in flight
TaskStopEnter(u) == ~terminated /\ StopEnter(u)
TaskStopBody(u) == ~terminated /\ StopBody(u)
TaskStopJoin(u) == ~terminated /\ StopJoin(u)

(***************************************************************************)
(* Session map (SessionMap)                                                *)
(***************************************************************************)
kMinSessionTimeout == 1000
DefaultCleanerInterval == 1800000
DefaultSessionTimeout == 7200000

SessionIds == {"s1", "s2"}
\* amounts by which the steady clock is seen to advance between calls
ClockSteps == {DefaultSessionTimeout \div 2, DefaultSessionTimeout}

Max(a, b) == IF a >= b THEN a ELSE b

\* SessionKeyHeapEntry::operator<
HeapLess(a, b) == a.expiry > b.expiry

\* Heap::Push, the loop that moves parents down
RECURSIVE SiftUp(_, _, _)
SiftUp(h, child, tmp) ==
  LET parent == child \div 2 IN
  IF parent >= 1 /\ HeapLess(h[parent], tmp)
  THEN SiftUp([h EXCEPT ![child] = h[parent]], parent, tmp)
  ELSE [h EXCEPT ![child] = tmp]

\* Heap::Push
HeapPush(h, e) == SiftUp(Append(h, e), Len(h) + 1, e)

\* Heap::Pop, the loop that moves children up
RECURSIVE SiftDown(_, _, _, _)
SiftDown(h, curr, tmp, last_idx) ==
  IF curr * 2 <= last_idx
  THEN LET left == curr * 2
           right == left + 1
           to_comp == IF right > last_idx THEN left
                      ELSE IF HeapLess(h[left], h[right]) THEN right ELSE left
       IN IF HeapLess(tmp, h[to_comp])
          THEN SiftDown([h EXCEPT ![curr] = h[to_comp]], to_comp, tmp, last_idx)
          ELSE [h EXCEPT ![curr] = tmp]
  ELSE [h EXCEPT ![curr] = tmp]

\* Heap::Pop: the heap that is left
HeapPop(h) ==
  IF Len(h) - 1 < 1 THEN <<>>
  ELSE SiftDown(SubSeq(h, 1, Len(h) - 1), 1, h[Len(h)], Len(h) - 1)

\* Heap::Top
HeapTop(h) == h[1]

\* the body of the cleaning loops: the map without the entry the popped key
\* describes, when the entry's expiry is still the key's
EraseIfCurrent_AnyExpiry(m, e) ==
  IF e.id \in DOMAIN m THEN [k \in DOMAIN m \ {e.id} |-> m[k]] ELSE m
EraseIfCurrent(m, e) ==
  IF e.id \in DOMAIN m /\ m[e.id].expiry = e.expiry
  THEN [k \in DOMAIN m \ {e.id} |-> m[k]]
  ELSE m

\* the loop of ShortClean and ThoroughClean: pops expired keys, at most
\* limit of them, and erases the map entries they still describe
RECURSIVE CleanLoop(_, _, _, _)
CleanLoop(m, h, now, limit) ==
  IF limit > 0 /\ h # <<>> /\ HeapTop(h).expiry <= now
  THEN LET e == HeapTop(h)
       IN CleanLoop(EraseIfCurrent(m, e), HeapPop(h), now, limit - 1)
  ELSE [map |-> m, pqueue |-> h]

\* SessionMap::ShortClean
ShortClean_Unlimited(m, h, now) ==
  IF Len(h) > Cardinality(DOMAIN m) * 2
  THEN CleanLoop(m, h, now, Len(h))
  ELSE [map |-> m, pqueue |-> h]
ShortClean(m, h, now) ==
  IF Len(h) > Cardinality(DOMAIN m) * 2
  THEN CleanLoop(m, h, now, 8)
  ELSE [map |-> m, pqueue |-> h]

\* SessionMap::ThoroughClean
ThoroughClean(m, h, now) == CleanLoop(m, h, now, Len(h))

\* SessionMap::timer_ as constructed on the executor of thread_pool_: no
\* wait pending, no handler running, no cleaning function posted
NewTimer ==
  [wait |-> "none", armed_at |-> 0, expiry |-> 0, handlers |-> 0, posted |-> 0,
   pool |-> "live"]

SessionInit ==
  /\ session_now = 0
  /\ map_ = <<>>
  /\ pqueue_ = <<>>
  /\ default_timeout_ = DefaultSessionTimeout
  /\ allow_cleaner_ = FALSE
  /\ ctx_count = 0
  /\ session_log = <<>>
  /\ timer_ = NewTimer
  /\ cleaner_interval_ = DefaultCleanerInterval

\* SessionMap::GetSession
GetSession(sessionid) ==
  /\ Len(session_log) < MaxSessionCalls
  /\ LET now == session_now
         live == sessionid \in DOMAIN map_ /\ map_[sessionid].expiry > now
         result == IF live THEN map_[sessionid].context ELSE ctx_count + 1
         new_expiry == IF live
                       THEN Max(now + default_timeout_, map_[sessionid].expiry)
                       ELSE now + Max(kMinSessionTimeout, default_timeout_)
         m1 == IF live
               THEN [map_ EXCEPT ![sessionid].expiry = new_expiry]
               ELSE IF sessionid \in DOMAIN map_ THEN map_
               ELSE (sessionid :> [context |-> result, expiry |-> new_expiry]) @@ map_
         h1 == IF live /\ new_expiry = map_[sessionid].expiry THEN pqueue_
               ELSE HeapPush(pqueue_, [id |-> sessionid, expiry |-> new_expiry])
         cleaned == ShortClean(m1, h1, now)
     IN /\ map_' = cleaned.map
        /\ pqueue_' = cleaned.pqueue
        /\ ctx_count' = IF live THEN ctx_count ELSE ctx_count + 1
        /\ session_log' = Append(session_log,
                                 [op |-> "get", id |-> sessionid, at |-> now,
                                  context |-> result, until |-> new_expiry])
  /\ UNCHANGED <<session_now, default_timeout_, allow_cleaner_, cleanerVars>>

\* SessionMap::SetDefaultSessionTimeout
SetDefaultSessionTimeout(timeout) ==
  /\ default_timeout_' = timeout
  /\ UNCHANGED <<session_now, map_, pqueue_, allow_cleaner_, cleanerVars, ctx_count,
                 session_log>>

\* SessionMap::RemoveSession
RemoveSession(sessionid) ==
  /\ Len(session_log) < MaxSessionCalls
  /\ LET m1 == [k \in DOMAIN map_ \ {sessionid} |-> map_[k]]
         cleaned == ShortClean(m1, pqueue_, session_now)
     IN /\ map_' = cleaned.map
        /\ pqueue_' = cleaned.pqueue
  /\ session_log' = Append(session_log,
                           [op |-> "remove", id |-> sessionid, at |-> session_now,
                            context |-> 0, until |-> session_now])
  /\ UNCHANGED <<session_now, default_timeout_, allow_cleaner_, cleanerVars, ctx_count>>

\* SessionMap::SetSessionTimeout, the expiry it settles on
NewTimeoutExpiry_NoMax(sessionid, candidate) == candidate
NewTimeoutExpiry(sessionid, candidate) ==
  IF sessionid \in DOMAIN map_ THEN Max(map_[sessionid].expiry, candidate)
  ELSE candidate

\* SessionMap::SetSessionTimeout
SetSessionTimeout(sessionid, timeout) ==
  /\ Len(session_log) < MaxSessionCalls
  /\ LET now == session_now
         present == sessionid \in DOMAIN map_
         candidate == now + Max(kMinSessionTimeout, timeout)
         new_expiry == NewTimeoutExpiry(sessionid, candidate)
         result == IF present THEN map_[sessionid].context ELSE ctx_count + 1
         m1 == IF present
               THEN [map_ EXCEPT ![sessionid].expiry = new_expiry]
               ELSE (sessionid :> [context |-> result, expiry |-> new_expiry]) @@ map_
         h1 == IF present /\ new_expiry = map_[sessionid].expiry THEN pqueue_
               ELSE HeapPush(pqueue_, [id |-> sessionid, expiry |-> new_expiry])
         cleaned == ShortClean(m1, h1, now)
     IN /\ map_' = cleaned.map
        /\ pqueue_' = cleaned.pqueue
        /\ ctx_count' = IF present THEN ctx_count ELSE ctx_count + 1
        /\ session_log' = Append(session_log,
                                 [op |-> "settimeout", id |-> sessionid, at |-> now,
                                  context |-> result, until |-> new_expiry,
                                  timeout |-> timeout])
  /\ UNCHANGED <<session_now, default_timeout_, allow_cleaner_, cleanerVars>>

\* SessionMap::SetCleaner, the arming of the timer: expires_after drops a
\* pending wait and async_wait starts one.  Once HttpServer::Stop has
\* destroyed the pool the timer was made on, the calls use a destroyed
\* service: the wait is started or it is not.
SetCleaner(tm, now) ==
  LET armed == [tm EXCEPT !.wait = "pending", !.armed_at = now,
                          !.expiry = now + Max(kMinSessionTimeout,
                                               cleaner_interval_)]
      unarmed == [tm EXCEPT !.wait = "none", !.armed_at = 0, !.expiry = 0]
  IN IF tm.pool = "live" THEN {armed} ELSE {armed, unarmed}

\* timer_.cancel(): the pending wait ends with operation_aborted and its
\* handler returns; on a destroyed pool the wait is dropped or it is not
CancelTimer(tm) ==
  LET unarmed == [tm EXCEPT !.wait = "none", !.armed_at = 0, !.expiry = 0]
  IN IF tm.pool = "live" THEN {unarmed} ELSE {unarmed, tm}

\* SessionMap::SetBackgroundCleaner
SetBackgroundCleaner(allow_cleaner) ==
  /\ allow_cleaner # allow_cleaner_
  /\ allow_cleaner_' = allow_cleaner
  /\ timer_' \in IF allow_cleaner THEN SetCleaner(timer_, session_now)
                 ELSE CancelTimer(timer_)
  /\ UNCHANGED <<session_now, map_, pqueue_, default_timeout_, ctx_count,
                 session_log, cleaner_interval_>>

\* SessionMap::SetCleanerInterval
SetCleanerInterval(interval) ==
  /\ cleaner_interval_' = interval
  /\ UNCHANGED <<session_now, map_, pqueue_, default_timeout_, allow_cleaner_,
                 ctx_count, session_log, timer_>>

\* the wait of timer_ ends without error: the handler reads IsRunning and,
\* when the server runs, goes on to call HttpServer::Post
CleanerTimerExpires ==
  /\ timer_.wait = "pending"
  /\ session_now >= timer_.expiry
  /\ timer_.handlers + timer_.posted < MaxCleanerPending
  /\ timer_' = [timer_ EXCEPT !.wait = "none", !.armed_at = 0, !.expiry = 0,
                               !.handlers = IF is_running_ THEN @ + 1 ELSE @]
  /\ UNCHANGED <<session_now, map_, pqueue_, default_timeout_, allow_cleaner_,
                 ctx_count, session_log, cleaner_interval_>>

\* the handler's call of HttpServer::Post: the shared lock, the running
\* check and boost::asio::post of the cleaning function
CleanerHandlerPosts ==
  /\ timer_.handlers > 0
  /\ CanLockShared
  /\ timer_' = [timer_ EXCEPT !.handlers = @ - 1,
                               !.posted = IF is_running_ THEN @ + 1 ELSE @]
  /\ UNCHANGED <<session_now, map_, pqueue_, default_timeout_, allow_cleaner_,
                 ctx_count, session_log, cleaner_interval_>>

\* the pass the posted function chooses
CleanerPass(m, h) ==
  IF Len(h) < Cardinality(DOMAIN m) * 8 THEN "short" ELSE "thorough"

\* the function SetCleaner's timer posts to the pool
CleanerRun ==
  /\ timer_.posted > 0
  /\ LET cleaned == IF CleanerPass(map_, pqueue_) = "short"
                    THEN ShortClean(map_, pqueue_, session_now)
                    ELSE ThoroughClean(map_, pqueue_, session_now)
         ran == [timer_ EXCEPT !.posted = @ - 1]
     IN /\ map_' = cleaned.map
        /\ pqueue_' = cleaned.pqueue
        /\ timer_' \in IF allow_cleaner_ /\ is_running_
                       THEN SetCleaner(ran, session_now)
                       ELSE {ran}
  /\ UNCHANGED <<session_now, default_timeout_, allow_cleaner_, ctx_count,
                 session_log, cleaner_interval_>>

\* the steady clock advances
ClockAdvance(d) ==
  /\ session_now + d <= MaxClockSteps * DefaultSessionTimeout
  /\ session_now' = session_now + d
  /\ UNCHANGED <<map_, pqueue_, default_timeout_, allow_cleaner_, cleanerVars, ctx_count,
                 session_log>>

(***************************************************************************)
(* Attribute map (Context, src/unnamed/part_020)                           *)
(***************************************************************************)
CtxThreads == {"t1", "t2"}
CtxKeys == {"k0", "k1"}
CtxValues == {"a1", "a2"}

ContextInit ==
  /\ ctx_mtx_ = [writer |-> NoThread, readers |-> {}]
  /\ ctx_map_ = [k \in CtxKeys |-> Null]
  /\ ctx_pc = [t \in CtxThreads |-> "idle"]
  /\ ctx_call = [t \in CtxThreads |-> <<>>]
  /\ ctx_set_done = [k \in CtxKeys |-> FALSE]
  /\ ctx_passed = [k \in CtxKeys |-> {}]
  /\ ctx_returns = <<>>

\* calls made so far and calls under way that will record a return
CtxReturnsOwed ==
  Len(ctx_returns)
  + Cardinality({t \in CtxThreads : ctx_pc[t] \in {"get", "has"}})

\* map_[key] = val that stores nothing
MapAssign_Lost(map, key, val) == map

\* map_[key] = val
MapAssign(map, key, val) == [map EXCEPT ![key] = val]

\* map_.find(key): the attribute, or Null for map_.end()
MapFind(map, key) == map[key]

\* map_.count(key) > 0
MapCount(map, key) == IF map[key] = Null THEN 0 ELSE 1

\* Context::SetAttribute: the call and the acquisition of the unique lock
SetAttributeEnter(t, key, val) ==
  /\ ctx_pc[t] = "idle"
  /\ ctx_mtx_.writer = NoThread /\ ctx_mtx_.readers = {}
  /\ ctx_mtx_' = [ctx_mtx_ EXCEPT !.writer = t]
  /\ ctx_pc' = [ctx_pc EXCEPT ![t] = "set"]
  /\ ctx_call' = [ctx_call EXCEPT ![t] = <<"SetAttribute", key, val>>]
  /\ ctx_passed' = [ctx_passed EXCEPT ![key] = @ \cup {val}]
  /\ UNCHANGED <<ctx_map_, ctx_set_done, ctx_returns>>

\* Context::SetAttribute: the assignment, the unlock and the return
SetAttributeBody(t) ==
  /\ ctx_pc[t] = "set"
  /\ ctx_map_' = MapAssign(ctx_map_, ctx_call[t][2], ctx_call[t][3])
  /\ ctx_set_done' = [ctx_set_done EXCEPT ![ctx_call[t][2]] = TRUE]
  /\ ctx_mtx_' = [ctx_mtx_ EXCEPT !.writer = NoThread]
  /\ ctx_pc' = [ctx_pc EXCEPT ![t] = "idle"]
  /\ ctx_call' = [ctx_call EXCEPT ![t] = <<>>]
  /\ UNCHANGED <<ctx_passed, ctx_returns>>

\* Context::GetAttribute / HasAttribute: the call and the acquisition of the
\* shared lock
ReadEnter(t, op, key) ==
  /\ ctx_pc[t] = "idle"
  /\ CtxReturnsOwed < MaxCtxReturns
  /\ ctx_mtx_.writer = NoThread
  /\ ctx_mtx_' = [ctx_mtx_ EXCEPT !.readers = @ \cup {t}]
  /\ ctx_pc' = [ctx_pc EXCEPT ![t] = IF op = "GetAttribute" THEN "get" ELSE "has"]
  /\ ctx_call' = [ctx_call EXCEPT ![t] = <<op, key, ctx_set_done[key]>>]
  /\ UNCHANGED <<ctx_map_, ctx_set_done, ctx_passed, ctx_returns>>

\* Context::GetAttribute: the lookup, the unlock and the return
GetAttributeBody(t) ==
  /\ ctx_pc[t] = "get"
  /\ ctx_returns' = Append(ctx_returns,
                           [op |-> "GetAttribute", key |-> ctx_call[t][2],
                            set_before |-> ctx_call[t][3],
                            result |-> MapFind(ctx_map_, ctx_call[t][2])])
  /\ ctx_mtx_' = [ctx_mtx_ EXCEPT !.readers = @ \ {t}]
  /\ ctx_pc' = [ctx_pc EXCEPT ![t] = "idle"]
  /\ ctx_call' = [ctx_call EXCEPT ![t] = <<>>]
  /\ UNCHANGED <<ctx_map_, ctx_set_done, ctx_passed>>

\* Context::HasAttribute: the count, the unlock and the return
HasAttributeBody(t) ==
  /\ ctx_pc[t] = "has"
  /\ ctx_returns' = Append(ctx_returns,
                           [op |-> "HasAttribute", key |-> ctx_call[t][2],
                            set_before |-> ctx_call[t][3],
                            result |-> MapCount(ctx_map_, ctx_call[t][2]) > 0])
  /\ ctx_mtx_' = [ctx_mtx_ EXCEPT !.readers = @ \ {t}]
  /\ ctx_pc' = [ctx_pc EXCEPT ![t] = "idle"]
  /\ ctx_call' = [ctx_call EXCEPT ![t] = <<>>]
  /\ UNCHANGED <<ctx_map_, ctx_set_done, ctx_passed>>

(***************************************************************************)
(* Set-Cookie builder (ServerSetCookie, src/unnamed/part_026)              *)
(***************************************************************************)
CookieTexts ==
  [name_ |-> {"", "sid"}, value_ |-> {"", "abc"}, expiry_ |-> {"", "Wed"},
   path_ |-> {"/"}, domain_ |-> {"example.com"}]
CookieMaxAges == {3600}
SameSites == {"Strict", "Lax", "None"}

SetCookieInit ==
  /\ cookie = NewServerSetCookie
  /\ cookie_string = <<>>

\* what every setter does to its field
SetField(c, field, v) == [c EXCEPT ![field] = <<v>>]

SetName(name) ==
  cookie' = SetField(cookie, "name_", name) /\ cookie_string' = <<>>
SetValue(value) ==
  cookie' = SetField(cookie, "value_", value) /\ cookie_string' = <<>>
SetExpires(expiry) ==
  cookie' = SetField(cookie, "expiry_", expiry) /\ cookie_string' = <<>>
SetMaxAge(max_age) ==
  cookie' = SetField(cookie, "max_age_", max_age) /\ cookie_string' = <<>>
SetPath(path) ==
  cookie' = SetField(cookie, "path_", path) /\ cookie_string' = <<>>
SetDomain(domain) ==
  cookie' = SetField(cookie, "domain_", domain) /\ cookie_string' = <<>>
SetSameSite(same_site) ==
  cookie' = SetField(cookie, "same_site_", same_site) /\ cookie_string' = <<>>
SetSecure(secure) ==
  cookie' = SetField(cookie, "secure_", secure) /\ cookie_string' = <<>>
SetHttpOnly(http_only) ==
  cookie' = SetField(cookie, "http_only_", http_only) /\ cookie_string' = <<>>

\* a call of ServerSetCookie::ToString
CallToString ==
  /\ cookie_string' = <<CookieToString(cookie)>>
  /\ UNCHANGED cookie

(***************************************************************************)
(* Streamed response queue (MessageQueue, src/unnamed/part_015)            *)
(***************************************************************************)
QueueThreads == {"q1", "q2"}

\* the thread that ends the response: DoCycle is called once per response, by
\* the connection or by the thread that holds the task
CycleThreads == {"q1"}

\* MessageQueue::MessageQueue on a connection that is open, in a running
\* server; the connection creates the queue with its first AddHeader/AddBody.
\* resp_op is <<keep_alive>> while the write of resp_ that DoWriteResponse
\* started is outstanding, and task_done says that the task of the request
\* was destroyed
QueueInit ==
  /\ mq_conn = [closed_ |-> FALSE, server_running |-> TRUE, queue_ |-> <<>>,
             is_writing_ |-> FALSE, queue_size_ |-> 0,
             connection_dead_ |-> FALSE, write_op |-> <<>>, started |-> <<>>,
             notify_all |-> FALSE, resp_op |-> <<>>, task_done |-> FALSE]
  /\ message_queue_ = FALSE
  /\ strand_ = <<>>
  /\ next_msg = 1
  /\ enq_log = <<>>
  /\ wire = <<>>
  /\ mq_pc = [t \in QueueThreads |-> "idle"]
  /\ clear_before = [t \in CycleThreads |-> {}]
  /\ last_clear = <<>>

HandleConnectionUnavailable(c) ==
  [c EXCEPT !.connection_dead_ = TRUE, !.notify_all = TRUE,
            !.is_writing_ = FALSE]

HandleWriteError_NoNotify(c) ==
  [c EXCEPT !.closed_ = TRUE, !.connection_dead_ = TRUE, !.is_writing_ = FALSE]

\* DoClose marks the connection closed
HandleWriteError(c) ==
  [c EXCEPT !.closed_ = TRUE, !.connection_dead_ = TRUE, !.notify_all = TRUE,
            !.is_writing_ = FALSE]

\* the handlers that run a write hold the connection, so conn_wp_.lock()
\* succeeds; async_write is handed the message at the front
StartWriteBody(c) ==
  IF ~c.server_running \/ c.closed_ THEN HandleConnectionUnavailable(c)
  ELSE [c EXCEPT !.write_op = <<Head(c.queue_)>>,
                 !.started = Append(@, Head(c.queue_).id)]

StartWriteHeader(c) ==
  IF ~c.server_running \/ c.closed_ THEN HandleConnectionUnavailable(c)
  ELSE [c EXCEPT !.write_op = <<Head(c.queue_)>>,
                 !.started = Append(@, Head(c.queue_).id)]

StartWriteIfNeeded_NoWritingCheck(c) ==
  IF c.queue_ = <<>> THEN c
  ELSE LET w == [c EXCEPT !.is_writing_ = TRUE] IN
       IF Head(w.queue_).type = "body" THEN StartWriteBody(w)
       ELSE StartWriteHeader(w)

StartWriteIfNeeded(c) ==
  IF c.queue_ = <<>> \/ c.is_writing_ THEN c
  ELSE LET w == [c EXCEPT !.is_writing_ = TRUE] IN
       IF Head(w.queue_).type = "body" THEN StartWriteBody(w)
       ELSE StartWriteHeader(w)

EnqueueBodyOnStrand(c, message) ==
  StartWriteIfNeeded([c EXCEPT !.queue_ = Append(@, message),
                               !.queue_size_ = @ + 1])

EnqueueHeaderOnStrand(c, message) ==
  StartWriteIfNeeded([c EXCEPT !.queue_ = Append(@, message),
                               !.queue_size_ = @ + 1])

\* the notification wakes the threads in Wait, which test their condition again
PopFrontAndNotifyIfEmpty(c) ==
  [c EXCEPT !.queue_ = Tail(@), !.queue_size_ = @ - 1,
            !.notify_all = (@ \/ c.queue_size_ = 1)]

\* what a handler that ran on the strand leaves: the state it computed, and
\* the threads blocked on cv_ woken if it notified
AfterHandler(c) ==
  /\ mq_conn' = [c EXCEPT !.notify_all = FALSE]
  /\ mq_pc' = IF c.notify_all
              THEN [t \in QueueThreads |->
                      IF mq_pc[t] = "asleep" THEN "ClearMessage" ELSE mq_pc[t]]
              ELSE mq_pc

HandleBodyWriteComplete(c, ec) ==
  IF ec THEN HandleWriteError(c)
  ELSE LET popped == [PopFrontAndNotifyIfEmpty(c) EXCEPT !.is_writing_ = FALSE] IN
       IF popped.queue_ # <<>> THEN StartWriteIfNeeded(popped) ELSE popped

HandleHeaderWriteComplete(c, ec) ==
  IF ec THEN HandleWriteError(c)
  ELSE LET popped == [PopFrontAndNotifyIfEmpty(c) EXCEPT !.is_writing_ = FALSE] IN
       IF popped.queue_ # <<>> THEN StartWriteIfNeeded(popped) ELSE popped

\* the condition MessageQueue::Wait waits for
WaitCondition(c) == c.connection_dead_ \/ c.queue_size_ = 0

\* DoFlushResponseBody: the queue is created if need be, and AddBody posts
\* the enqueue to the strand
AddBody(t) ==
  /\ mq_pc[t] = "idle"
  /\ next_msg <= MaxMessages
  /\ message_queue_' = TRUE
  /\ strand_' = Append(strand_,
                        [op |-> "EnqueueBody",
                         message |-> [type |-> "body", id |-> next_msg,
                                      after_dead |-> mq_conn.connection_dead_]])
  /\ next_msg' = next_msg + 1
  /\ UNCHANGED <<mq_conn, enq_log, wire, mq_pc, clear_before, last_clear>>

\* DoFlushResponseHeader and AddHeader
AddHeader(t) ==
  /\ mq_pc[t] = "idle"
  /\ next_msg <= MaxMessages
  /\ message_queue_' = TRUE
  /\ strand_' = Append(strand_,
                        [op |-> "EnqueueHeader",
                         message |-> [type |-> "header", id |-> next_msg,
                                      after_dead |-> mq_conn.connection_dead_]])
  /\ next_msg' = next_msg + 1
  /\ UNCHANGED <<mq_conn, enq_log, wire, mq_pc, clear_before, last_clear>>

\* the strand runs the oldest handler posted to it, one at a time
StrandEnqueueBody ==
  /\ strand_ # <<>> /\ Head(strand_).op = "EnqueueBody"
  /\ AfterHandler(EnqueueBodyOnStrand(mq_conn, Head(strand_).message))
  /\ enq_log' = Append(enq_log, Head(strand_).message.id)
  /\ strand_' = Tail(strand_)
  /\ UNCHANGED <<message_queue_, next_msg, wire, clear_before, last_clear>>

StrandEnqueueHeader ==
  /\ strand_ # <<>> /\ Head(strand_).op = "EnqueueHeader"
  /\ AfterHandler(EnqueueHeaderOnStrand(mq_conn, Head(strand_).message))
  /\ enq_log' = Append(enq_log, Head(strand_).message.id)
  /\ strand_' = Tail(strand_)
  /\ UNCHANGED <<message_queue_, next_msg, wire, clear_before, last_clear>>

StrandBodyWriteComplete ==
  /\ strand_ # <<>> /\ Head(strand_).op = "BodyWriteComplete"
  /\ AfterHandler(HandleBodyWriteComplete(mq_conn, Head(strand_).ec))
  /\ strand_' = Tail(strand_)
  /\ UNCHANGED <<message_queue_, next_msg, enq_log, wire, clear_before,
                 last_clear>>

StrandHeaderWriteComplete ==
  /\ strand_ # <<>> /\ Head(strand_).op = "HeaderWriteComplete"
  /\ AfterHandler(HandleHeaderWriteComplete(mq_conn, Head(strand_).ec))
  /\ strand_' = Tail(strand_)
  /\ UNCHANGED <<message_queue_, next_msg, enq_log, wire, clear_before,
                 last_clear>>

\* the stream ends the write it was given, with or without an error, and
\* the completion handler goes to the strand; a write that ended without an
\* error has put its message on the wire
AsyncWriteEnds(ec) ==
  /\ mq_conn.write_op # <<>>
  /\ mq_conn' = [mq_conn EXCEPT !.write_op = <<>>]
  /\ wire' = IF ec THEN wire ELSE Append(wire, mq_conn.write_op[1].id)
  /\ strand_' = Append(strand_,
                        [op |-> IF mq_conn.write_op[1].type = "body"
                                THEN "BodyWriteComplete"
                                ELSE "HeaderWriteComplete",
                         ec |-> ec])
  /\ UNCHANGED <<message_queue_, next_msg, enq_log, mq_pc, clear_before,
                 last_clear>>

\* HttpServerConnectionImpl::DoClose from elsewhere (the idle timer, a
\* handler's DoClose)
DoClose ==
  /\ ~mq_conn.closed_
  /\ mq_conn' = [mq_conn EXCEPT !.closed_ = TRUE]
  /\ UNCHANGED <<message_queue_, strand_, next_msg, enq_log, wire, mq_pc,
                 clear_before, last_clear>>

\* the server's running flag changes (HttpServer::Stop, HttpServer::Start)
ServerRunningChanges ==
  /\ mq_conn' = [mq_conn EXCEPT !.server_running = ~@]
  /\ UNCHANGED <<message_queue_, strand_, next_msg, enq_log, wire, mq_pc,
                 clear_before, last_clear>>

\* a thread calls ClearMessage (HttpServerTask::DoCycle reaches it through
\* HttpServerConnection::DoCycle)
ClearMessageCall(t) ==
  /\ mq_pc[t] = "idle"
  /\ mq_pc' = [mq_pc EXCEPT ![t] = "ClearMessage"]
  /\ clear_before' = [clear_before EXCEPT ![t] = 1..(next_msg - 1)]
  /\ UNCHANGED <<mq_conn, message_queue_, strand_, next_msg, enq_log, wire,
                 last_clear>>

\* Wait finds its condition false and blocks on cv_; cv_mutex_, which the
\* notifying handlers take, makes the test and the blocking one step
WaitBlocks(t) ==
  /\ mq_pc[t] = "ClearMessage"
  /\ message_queue_ /\ ~WaitCondition(mq_conn)
  /\ mq_pc' = [mq_pc EXCEPT ![t] = "asleep"]
  /\ UNCHANGED <<mq_conn, message_queue_, strand_, next_msg, enq_log, wire,
                 clear_before, last_clear>>

\* ClearMessage returns: there is no queue, or Wait found its condition
ClearMessageReturn(t) ==
  /\ mq_pc[t] = "ClearMessage"
  /\ message_queue_ => WaitCondition(mq_conn)
  /\ mq_pc' = [mq_pc EXCEPT ![t] = "idle"]
  /\ last_clear' = <<clear_before[t] \ {wire[i] : i \in 1..Len(wire)}>>
  /\ clear_before' = [clear_before EXCEPT ![t] = {}]
  /\ UNCHANGED <<mq_conn, message_queue_, strand_, next_msg, enq_log, wire>>

\* HttpServerTask::~HttpServerTask on the thread that released the task:
\* DoWriteResponse tests IsServerRunning() and IsStreamAvailable() and closes
\* a connection that fails the test; closed_ is atomic and no lock is held,
\* so the rest of the function is a later step of that thread
ConnDoWriteResponse(t, keep_alive) ==
  /\ mq_pc[t] = "idle"
  /\ ~mq_conn.task_done
  /\ IF ~mq_conn.server_running \/ mq_conn.closed_
     THEN /\ mq_conn' = [mq_conn EXCEPT !.closed_ = TRUE, !.task_done = TRUE]
          /\ UNCHANGED mq_pc
     ELSE /\ mq_conn' = [mq_conn EXCEPT !.task_done = TRUE]
          /\ mq_pc' = [mq_pc EXCEPT ![t] = IF keep_alive THEN "write_keep_alive"
                                           ELSE "write_close"]
  /\ UNCHANGED <<message_queue_, strand_, next_msg, enq_log, wire,
                 clear_before, last_clear>>

\* DoWriteResponse after its test: resp_ is prepared and handed to
\* async_write on the stream
ConnStartResponseWrite(t) ==
  /\ mq_pc[t] \in {"write_keep_alive", "write_close"}
  /\ mq_conn' = [mq_conn EXCEPT !.resp_op = <<mq_pc[t] = "write_keep_alive">>]
  /\ mq_pc' = [mq_pc EXCEPT ![t] = "idle"]
  /\ UNCHANGED <<message_queue_, strand_, next_msg, enq_log, wire,
                 clear_before, last_clear>>

\* the stream ends the write of resp_, and the completion handler bound to
\* the connection's executor goes to the strand
ResponseWriteEnds(ec) ==
  /\ mq_conn.resp_op # <<>>
  /\ mq_conn' = [mq_conn EXCEPT !.resp_op = <<>>]
  /\ strand_' = Append(strand_, [op |-> "WriteComplete", ec |-> ec,
                                  keep_alive |-> mq_conn.resp_op[1]])
  /\ UNCHANGED <<message_queue_, next_msg, enq_log, wire, mq_pc, clear_before,
                 last_clear>>

\* the completion handler of DoWriteResponse: DoClose after an error or
\* without keep-alive, else it calls DoCycle, which stays the handler the
\* strand is running
StrandResponseWriteComplete ==
  /\ strand_ # <<>> /\ Head(strand_).op = "WriteComplete"
  /\ IF Head(strand_).ec \/ ~Head(strand_).keep_alive
     THEN /\ mq_conn' = [mq_conn EXCEPT !.closed_ = TRUE]
          /\ strand_' = Tail(strand_)
     ELSE /\ strand_' = <<[op |-> "DoCycle"]>> \o Tail(strand_)
          /\ UNCHANGED mq_conn
  /\ UNCHANGED <<message_queue_, next_msg, enq_log, wire, mq_pc, clear_before,
                 last_clear>>

\* the strand is inside DoCycle, in ClearMessage, blocked in Wait: no other
\* handler of the strand runs meanwhile
StrandInWait ==
  /\ strand_ # <<>> /\ Head(strand_).op = "DoCycle"
  /\ message_queue_ /\ ~WaitCondition(mq_conn)

\* HttpServerConnection::DoCycle on the strand, once ClearMessage returned:
\* the connection is closed unless the server runs and the stream is open
\* (the read of the next request is the driver's)
StrandDoCycle ==
  /\ strand_ # <<>> /\ Head(strand_).op = "DoCycle"
  /\ message_queue_ => WaitCondition(mq_conn)
  /\ mq_conn' = IF mq_conn.server_running /\ ~mq_conn.closed_ THEN mq_conn
                ELSE [mq_conn EXCEPT !.closed_ = TRUE]
  /\ strand_' = Tail(strand_)
  /\ UNCHANGED <<message_queue_, next_msg, enq_log, wire, mq_pc, clear_before,
                 last_clear>>

(***************************************************************************)
(* Connection driver (src/src/connection/http_server_connection.cc,        *)
(* src/unnamed/part_015)                                                   *)
(***************************************************************************)
HeaderReadExpiries == {0, 3000}
KeepAliveTimeouts == {0, 4000}
RouteReadExpiries == {0, 2000}

\* HttpServerConnection::HttpServerConnection, made by DoAccept on a running
\* server; parser_ is "fresh", "header" or "body" after a read, "released"
\* once the task took the request; route_result_ is <<>> when empty
NewDriver(header_read_expiry, keep_alive_timeout) ==
  [closed_ |-> FALSE, parser_ |-> "fresh", route_result_ |-> <<>>,
   timer_ |-> <<>>, header_read_expiry_ |-> header_read_expiry,
   keep_alive_timeout_ |-> keep_alive_timeout, io_op |-> "none",
   strand |-> <<>>, running |-> <<>>, server_running |-> TRUE,
   task |-> "accepted", keep_alive |-> FALSE, after_cycle |-> FALSE]

DriverInit == driver = NewDriver(3000, 4000)

DriverConfigs ==
  {NewDriver(h, k) : h \in HeaderReadExpiries, k \in KeepAliveTimeouts}

\* IsServerRunning() && IsStreamAvailable()
DrvAvailable(d) == d.server_running /\ ~d.closed_

\* HttpServerConnectionImpl::DoClose
DrvDoClose(d) == IF d.closed_ THEN d ELSE [d EXCEPT !.closed_ = TRUE]

\* timer_.cancel(): the handler of a pending wait is invoked with
\* operation_aborted, on the strand
DrvCancelTimer(d) ==
  IF d.timer_ = <<>> THEN d
  ELSE [d EXCEPT !.timer_ = <<>>,
                 !.strand = Append(@, [h |-> "Timer", ec |-> TRUE])]

\* timer_.expires_after(t); timer_.async_wait(...)
DrvArmTimer(d, t) == [DrvCancelTimer(d) EXCEPT !.timer_ = <<t>>]

DrvDoReadHeader(d) ==
  IF ~DrvAvailable(d) THEN DrvDoClose(d) ELSE [d EXCEPT !.io_op = "read_header"]

DrvDoReadBody(d) ==
  IF ~DrvAvailable(d) THEN DrvDoClose(d) ELSE [d EXCEPT !.io_op = "read_body"]

\* the handler Run posts to the strand
DrvRunPosted(d) ==
  DrvDoReadHeader(IF d.header_read_expiry_ # 0
                  THEN DrvArmTimer(d, d.header_read_expiry_) ELSE d)

\* HttpServerConnection::Run
DrvRun(d) ==
  IF ~DrvAvailable(d) THEN DrvDoClose(d)
  ELSE [d EXCEPT !.strand = Append(@, [h |-> "Run", ec |-> FALSE])]

\* HttpServerConnection::DoRoute; has_handler and read_expiry are what
\* HttpServer::Route returned
DrvDoRoute(d, has_handler, read_expiry) ==
  LET c == DrvCancelTimer(d) IN
  IF c.parser_ # "header" THEN DrvDoClose(c)
  ELSE IF ~DrvAvailable(c) THEN DrvDoClose(c)
  ELSE LET r == [c EXCEPT !.route_result_ = <<read_expiry>>,
                          !.after_cycle = FALSE] IN
       IF ~has_handler THEN DrvDoClose(r)
       ELSE DrvDoReadBody(IF read_expiry # 0 THEN DrvArmTimer(r, read_expiry)
                          ELSE r)

\* HttpServerConnection::DoForwardRequest: the task takes the request and the
\* route result and is started
DrvDoForwardRequest(d) ==
  IF ~DrvAvailable(d) THEN DrvDoClose(d)
  ELSE [DrvCancelTimer(d) EXCEPT !.parser_ = "released",
                                 !.route_result_ = <<>>,
                                 !.task = "service"]

\* HttpServerConnectionImpl::DoWriteResponse
DrvDoWriteResponse(d, keep_alive) ==
  IF ~DrvAvailable(d) THEN DrvDoClose(d)
  ELSE [d EXCEPT !.io_op = "write", !.keep_alive = keep_alive]

DrvDoCycle_KeepsParser(d) ==
  IF DrvAvailable(d)
  THEN LET r == [d EXCEPT !.route_result_ = <<>>, !.after_cycle = TRUE] IN
       DrvRun(IF d.header_read_expiry_ + d.keep_alive_timeout_ # 0
              THEN DrvArmTimer(r, d.header_read_expiry_ + d.keep_alive_timeout_)
              ELSE r)
  ELSE DrvDoClose(d)

\* HttpServerConnection::DoCycle; the response was not streamed, so
\* ClearMessage has no queue to wait for
DrvDoCycle(d) ==
  IF DrvAvailable(d)
  THEN LET r == [d EXCEPT !.route_result_ = <<>>, !.parser_ = "fresh",
                          !.after_cycle = TRUE] IN
       DrvRun(IF d.header_read_expiry_ + d.keep_alive_timeout_ # 0
              THEN DrvArmTimer(r, d.header_read_expiry_ + d.keep_alive_timeout_)
              ELSE r)
  ELSE DrvDoClose(d)

\* the completion handlers given to async_read_header, async_read,
\* async_write and timer_.async_wait
DrvReadHeaderComplete(d, ec, has_handler, read_expiry) ==
  IF ec THEN DrvDoClose(d) ELSE DrvDoRoute(d, has_handler, read_expiry)

DrvReadBodyComplete(d, ec) ==
  IF ec THEN DrvDoClose(d) ELSE DrvDoForwardRequest(d)

DrvWriteComplete(d, ec) ==
  IF ec THEN DrvDoClose(d)
  ELSE IF ~d.keep_alive THEN DrvDoClose(d)
  ELSE DrvDoCycle(d)

DrvTimerHandler(d, ec) == IF ~ec THEN DrvDoClose(d) ELSE d

\* DoAccept calls Run on the connection it made
DriverAccepted ==
  /\ driver.task = "accepted"
  /\ driver' = DrvRun([driver EXCEPT !.task = "none"])

\* the strand takes the oldest handler; it runs one handler at a time
StrandTakes ==
  /\ driver.running = <<>> /\ driver.strand # <<>>
  /\ driver' = [driver EXCEPT !.running = <<Head(driver.strand)>>,
                               !.strand = Tail(driver.strand)]

\* the handler the strand is running, carried out
Runs(h) == driver.running # <<>> /\ driver.running[1].h = h
Done(d) == [d EXCEPT !.running = <<>>]

StrandRunPosted ==
  Runs("Run") /\ driver' = Done(DrvRunPosted(driver))

StrandReadHeaderComplete(has_handler, read_expiry) ==
  /\ Runs("ReadHeader")
  /\ driver' = Done(DrvReadHeaderComplete(driver, driver.running[1].ec,
                                           has_handler, read_expiry))

StrandReadBodyComplete ==
  /\ Runs("ReadBody")
  /\ driver' = Done(DrvReadBodyComplete(driver, driver.running[1].ec))

StrandWriteComplete ==
  /\ Runs("Write")
  /\ driver' = Done(DrvWriteComplete(driver, driver.running[1].ec))

StrandTimerHandler ==
  /\ Runs("Timer")
  /\ driver' = Done(DrvTimerHandler(driver, driver.running[1].ec))

\* the stream ends the operation it was given, and the completion handler
\* goes to the strand; a read that ended without an error filled the parser
StreamOpEnds(ec) ==
  /\ driver.io_op # "none"
  /\ driver' =
       [driver EXCEPT
          !.io_op = "none",
          !.parser_ = IF ec THEN @
                      ELSE CASE driver.io_op = "read_header" -> "header"
                             [] driver.io_op = "read_body" -> "body"
                             [] OTHER -> @,
          !.strand = Append(@, [h |-> CASE driver.io_op = "read_header" -> "ReadHeader"
                                        [] driver.io_op = "read_body" -> "ReadBody"
                                        [] OTHER -> "Write",
                                ec |-> ec])]

\* the deadline of timer_ passes
DriverTimerExpires ==
  /\ driver.timer_ # <<>>
  /\ driver' = [driver EXCEPT !.timer_ = <<>>,
                               !.strand = Append(@, [h |-> "Timer", ec |-> FALSE])]

\* HttpServer::Stop, HttpServer::Start
DriverServerFlips ==
  driver' = [driver EXCEPT !.server_running = ~@]

\* the last owner of the task, a thread of the pool, lets go of it and
\* enters HttpServerTask::~HttpServerTask
TaskDestructorBegins(keep_alive) ==
  /\ driver.task = "service"
  /\ driver' = [driver EXCEPT !.task = "finalizing", !.keep_alive = keep_alive]

\* the destructor calls DoWriteResponse on the connection, on that thread
TaskDestructorWrites ==
  /\ driver.task = "finalizing"
  /\ driver' = [DrvDoWriteResponse(driver, driver.keep_alive)
                  EXCEPT !.task = "none"]

(***************************************************************************)
(* Specifications                                                          *)
(***************************************************************************)
vars == <<routeVars, serverVars, taskVars, sessionVars, extraVars>>

\* the route table on its own: registrations and lookups
\* the parts a specification does not exercise, as constructed
ExtraInit ==
  ContextInit /\ last_reg = <<>> /\ SetCookieInit /\ QueueInit /\ DriverInit

RouteInit ==
  RouteTableInit /\ ServerInit /\ NoTaskInit /\ SessionInit /\ ExtraInit

RouteAdd(m, t) == AddRouteEntry(m, t) /\ UNCHANGED outsideRoute
RouteAddExclusive(m, t) == AddExclusiveRouteEntry(m, t) /\ UNCHANGED outsideRoute
RouteLookup(m, s) == DoRouteLookup(m, s) /\ UNCHANGED outsideRoute

RouteNext ==
  \/ \E m \in RouteMethods, t \in Templates : RouteAdd(m, t)
  \/ \E m \in RouteMethods, t \in Templates : RouteAddExclusive(m, t)
  \/ \E m \in RouteMethods, s \in Targets : RouteLookup(m, s)

RouteSpec == RouteInit /\ [][RouteNext]_vars

\* the route table with aspect registrations
AspectAddRoute(m, t) == AddAspect(m, t) /\ UNCHANGED outsideRoute
AspectAddMethodGlobal(m) == AddMethodGlobalAspect(m) /\ UNCHANGED outsideRoute
AspectAddGlobal == AddGlobalAspect /\ UNCHANGED outsideRoute

AspectNext ==
  \/ \E t \in AspectTemplates : RouteAdd("GET", t)
  \/ \E t \in AspectTemplates : AspectAddRoute("GET", t)
  \/ \E m \in Methods : AspectAddMethodGlobal(m)
  \/ AspectAddGlobal
  \/ \E s \in AspectTargets : RouteLookup("GET", s)

AspectSpec == RouteInit /\ [][AspectNext]_vars

\* the route table under registrations with valid and invalid templates
Registered(op, m, t) ==
  last_reg' = <<[op |-> op, method |-> m, target |-> t,
                 ok |-> RegistrationReturn(t)]>>

RegAddRouteEntry(m, t) ==
  AddRouteEntry(m, t) /\ Registered("AddRouteEntry", m, t)
  /\ UNCHANGED outsideReg
RegAddExclusiveRouteEntry(m, t) ==
  AddExclusiveRouteEntry(m, t) /\ Registered("AddExclusiveRouteEntry", m, t)
  /\ UNCHANGED outsideReg
RegAddAspect(m, t) ==
  AddAspect(m, t) /\ Registered("AddAspect", m, t) /\ UNCHANGED outsideReg
RegSetMaxBodySize(m, t, v) ==
  SetMaxBodySize(m, t, v) /\ Registered("SetMaxBodySize", m, t)
  /\ UNCHANGED outsideReg
RegSetReadExpiry(m, t, v) ==
  SetReadExpiry(m, t, v) /\ Registered("SetReadExpiry", m, t)
  /\ UNCHANGED outsideReg
RegSetWriteExpiry(m, t, v) ==
  SetWriteExpiry(m, t, v) /\ Registered("SetWriteExpiry", m, t)
  /\ UNCHANGED outsideReg

RegNext ==
  \/ \E t \in RegTemplates : RegAddRouteEntry("GET", t)
  \/ \E t \in RegTemplates : RegAddExclusiveRouteEntry("GET", t)
  \/ \E t \in RegTemplates : RegAddAspect("GET", t)
  \/ \E t \in RegTemplates, v \in RegLimits : RegSetMaxBodySize("GET", t, v)
  \/ \E t \in RegTemplates, v \in RegLimits : RegSetReadExpiry("GET", t, v)
  \/ \E t \in RegTemplates, v \in RegLimits : RegSetWriteExpiry("GET", t, v)

RegSpec == RouteInit /\ [][RegNext]_vars

\* the server facade: caller threads and the thread pool
Init ==
  RouteTableInit /\ ServerInit /\ NoTaskInit /\ SessionInit /\ ExtraInit

Next ==
  \/ \E u \in Users, n \in StartThreadCounts : StartEnter(u, n)
  \/ \E u \in Users : StartBody(u)
  \/ \E u \in Users : StopEnter(u)
  \/ \E u \in Users : StopBody(u)
  \/ \E u \in Users : StopJoin(u)
  \/ \E u \in Users, c \in FacadeMutations : MutatorEnter(u, c)
  \/ \E u \in Users : MutatorBody(u)
  \/ \E u \in Users, k \in FnKinds : PostEnter(u, k)
  \/ \E u \in Users : PostBody(u)
  \/ \E w \in Workers : WorkerTake(w)
  \/ \E w \in Workers : WorkerPostEnter(w)
  \/ \E w \in Workers : WorkerPostBody(w)
  \/ \E w \in Workers : WorkerReturn(w)

Spec == Init /\ [][Next]_vars

\* the facade's Start, Stop, Post and SetTimer with the pool and its timers
TimerNext ==
  \/ \E u \in Users, n \in StartThreadCounts : StartEnter(u, n)
  \/ \E u \in Users : StartBody(u)
  \/ \E u \in Users : StopEnter(u)
  \/ \E u \in Users : StopBody(u)
  \/ \E u \in Users : StopJoin(u)
  \/ \E u \in Users, k \in FnKinds : PostEnter(u, k)
  \/ \E u \in Users : PostBody(u)
  \/ \E u \in Users : SetTimerEnter(u)
  \/ \E u \in Users : SetTimerBody(u)
  \/ \E i \in 1..MaxPosts : TimerExpire(i)
  \/ \E w \in Workers : WorkerTake(w)
  \/ \E w \in Workers : WorkerPostEnter(w)
  \/ \E w \in Workers : WorkerPostBody(w)
  \/ \E w \in Workers : WorkerReturn(w)

TimerSpec == Init /\ [][TimerNext]_vars

\* one request task from its construction to the end of its response write
TaskInit ==
  /\ RouteTableInit
  /\ mtx_ = [writer |-> NoThread, readers |-> {}]
  /\ is_running_ = TRUE
  /\ keep_alive_timeout_ = 4000
  /\ header_read_expiry_ = 3000
  /\ io_threads_ = 1
  /\ user_pc = [u \in Users |-> "idle"]
  /\ user_call = [u \in Users |-> <<>>]
  /\ fns = <<>>
  /\ pool_queue = <<>>
  /\ timers = {}
  /\ worker_pc = [w \in TaskWorkers \cup {IoThread} |->
                    IF w = IoThread THEN "post" ELSE "idle"]
  /\ worker_fn = [w \in TaskWorkers \cup {IoThread} |->
                    IF w = IoThread THEN <<"Start">> ELSE NoClosure]
  /\ TaskStateInit
  /\ SessionInit
  /\ ExtraInit

TaskNext ==
  \/ \E w \in TaskWorkers : TaskWorkerTake(w)
  \/ \E w \in TaskWorkers, op \in TaskOps : UserOp(w, op)
  \/ \E w \in TaskWorkers : StepReturn(w)
  \/ \E w \in TaskWorkers, ex \in ExceptionKinds : StepThrow(w, ex)
  \/ \E w \in TaskWorkers \cup {IoThread} : TaskPost(w)
  \/ \E w \in TaskWorkers \cup {IoThread} : SrvPost(w)
  \/ \E w \in TaskWorkers \cup {IoThread} : ClosureReturn(w)
  \/ \E ec \in WriteResults : WriteCompleted(ec)
  \/ \E u \in TaskUsers : TaskStopEnter(u)
  \/ \E u \in TaskUsers : TaskStopBody(u)
  \/ \E u \in TaskUsers : TaskStopJoin(u)

TaskSpec == TaskInit /\ [][TaskNext]_vars

\* one request task whose Cookie header is parsed by the task
CookieSpecInit ==
  /\ RouteTableInit
  /\ mtx_ = [writer |-> NoThread, readers |-> {}]
  /\ is_running_ = TRUE
  /\ keep_alive_timeout_ = 4000
  /\ header_read_expiry_ = 3000
  /\ io_threads_ = 1
  /\ user_pc = [u \in Users |-> "idle"]
  /\ user_call = [u \in Users |-> <<>>]
  /\ fns = <<>>
  /\ pool_queue = <<>>
  /\ timers = {}
  /\ worker_pc = [w \in TaskWorkers \cup {IoThread} |->
                    IF w = IoThread THEN "post" ELSE "idle"]
  /\ worker_fn = [w \in TaskWorkers \cup {IoThread} |->
                    IF w = IoThread THEN <<"Start">> ELSE NoClosure]
  /\ CookieTaskInit
  /\ SessionInit
  /\ ExtraInit

CookieNext ==
  \/ \E w \in TaskWorkers : TaskWorkerTake(w)
  \/ \E w \in TaskWorkers, op \in CookieTaskOps : UserOp(w, op)
  \/ \E w \in TaskWorkers : StepReturn(w)
  \/ \E w \in TaskWorkers, ex \in ExceptionKinds : StepThrow(w, ex)
  \/ \E w \in TaskWorkers \cup {IoThread} : TaskPost(w)
  \/ \E w \in TaskWorkers \cup {IoThread} : SrvPost(w)
  \/ \E w \in TaskWorkers \cup {IoThread} : ClosureReturn(w)
  \/ \E ec \in WriteResults : WriteCompleted(ec)
  \/ \E u \in TaskUsers : TaskStopEnter(u)
  \/ \E u \in TaskUsers : TaskStopBody(u)
  \/ \E u \in TaskUsers : TaskStopJoin(u)

CookieSpec == CookieSpecInit /\ [][CookieNext]_vars

\* one Set-Cookie builder, its setters and ToString
BuilderSetName(v) == SetName(v) /\ UNCHANGED outsideCookie
BuilderSetValue(v) == SetValue(v) /\ UNCHANGED outsideCookie
BuilderSetExpires(v) == SetExpires(v) /\ UNCHANGED outsideCookie
BuilderSetMaxAge(v) == SetMaxAge(v) /\ UNCHANGED outsideCookie
BuilderSetPath(v) == SetPath(v) /\ UNCHANGED outsideCookie
BuilderSetDomain(v) == SetDomain(v) /\ UNCHANGED outsideCookie
BuilderSetSameSite(v) == SetSameSite(v) /\ UNCHANGED outsideCookie
BuilderSetSecure(v) == SetSecure(v) /\ UNCHANGED outsideCookie
BuilderSetHttpOnly(v) == SetHttpOnly(v) /\ UNCHANGED outsideCookie
BuilderToString == CallToString /\ UNCHANGED outsideCookie

SetCookieNext ==
  \/ \E v \in CookieTexts.name_ : BuilderSetName(v)
  \/ \E v \in CookieTexts.value_ : BuilderSetValue(v)
  \/ \E v \in CookieTexts.expiry_ : BuilderSetExpires(v)
  \/ \E v \in CookieMaxAges : BuilderSetMaxAge(v)
  \/ \E v \in CookieTexts.path_ : BuilderSetPath(v)
  \/ \E v \in CookieTexts.domain_ : BuilderSetDomain(v)
  \/ \E v \in SameSites : BuilderSetSameSite(v)
  \/ \E v \in BOOLEAN : BuilderSetSecure(v)
  \/ \E v \in BOOLEAN : BuilderSetHttpOnly(v)
  \/ BuilderToString

SetCookieSpec == Init /\ [][SetCookieNext]_vars

\* one connection streaming a response through its MessageQueue
QueueAddBody(t) == AddBody(t) /\ UNCHANGED outsideQueue
QueueAddHeader(t) == AddHeader(t) /\ UNCHANGED outsideQueue
QueueEnqueueBody == StrandEnqueueBody /\ UNCHANGED outsideQueue
QueueEnqueueHeader == StrandEnqueueHeader /\ UNCHANGED outsideQueue
QueueBodyWriteComplete == StrandBodyWriteComplete /\ UNCHANGED outsideQueue
QueueHeaderWriteComplete == StrandHeaderWriteComplete /\ UNCHANGED outsideQueue
QueueAsyncWriteEnds(ec) == AsyncWriteEnds(ec) /\ UNCHANGED outsideQueue
QueueDoClose == DoClose /\ UNCHANGED outsideQueue
QueueServerRunningChanges == ServerRunningChanges /\ UNCHANGED outsideQueue
QueueClearMessageCall(t) == ClearMessageCall(t) /\ UNCHANGED outsideQueue
QueueClearMessageReturn(t) == ClearMessageReturn(t) /\ UNCHANGED outsideQueue
QueueWaitBlocks(t) == WaitBlocks(t) /\ UNCHANGED outsideQueue

QueueNext ==
  \/ \E t \in QueueThreads : QueueAddBody(t)
  \/ \E t \in QueueThreads : QueueAddHeader(t)
  \/ QueueEnqueueBody
  \/ QueueEnqueueHeader
  \/ QueueBodyWriteComplete
  \/ QueueHeaderWriteComplete
  \/ \E ec \in BOOLEAN : QueueAsyncWriteEnds(ec)
  \/ QueueDoClose
  \/ QueueServerRunningChanges
  \/ \E t \in CycleThreads : QueueClearMessageCall(t)
  \/ \E t \in CycleThreads : QueueClearMessageReturn(t)
  \/ \E t \in CycleThreads : QueueWaitBlocks(t)

QueueSpec == Init /\ [][QueueNext]_vars

\* one connection whose handler streams through the MessageQueue and whose
\* task is then destroyed
ResponseDoWriteResponse(t, keep_alive) ==
  ConnDoWriteResponse(t, keep_alive) /\ UNCHANGED outsideQueue
ResponseStartWrite(t) == ConnStartResponseWrite(t) /\ UNCHANGED outsideQueue
ResponseWriteEndsStep(ec) == ResponseWriteEnds(ec) /\ UNCHANGED outsideQueue
ResponseWriteComplete == StrandResponseWriteComplete /\ UNCHANGED outsideQueue
ResponseDoCycle == StrandDoCycle /\ UNCHANGED outsideQueue

ResponseNext ==
  \/ \E t \in CycleThreads : QueueAddBody(t)
  \/ \E t \in CycleThreads : QueueAddHeader(t)
  \/ QueueEnqueueBody
  \/ QueueEnqueueHeader
  \/ QueueBodyWriteComplete
  \/ QueueHeaderWriteComplete
  \/ \E ec \in BOOLEAN : QueueAsyncWriteEnds(ec)
  \/ QueueDoClose
  \/ QueueServerRunningChanges
  \/ \E t \in CycleThreads, keep_alive \in BOOLEAN :
       ResponseDoWriteResponse(t, keep_alive)
  \/ \E t \in CycleThreads : ResponseStartWrite(t)
  \/ \E ec \in BOOLEAN : ResponseWriteEndsStep(ec)
  \/ ResponseWriteComplete
  \/ ResponseDoCycle

ResponseSpec == Init /\ [][ResponseNext]_vars

\* C35: every ClearMessage that DoCycle calls on the connection's strand
\* returns: the strand is never blocked in Wait (while it is, no handler that
\* could empty the queue or mark the connection dead can run).
C35_ClearMessageReturns == ~StrandInWait

\* C36: at most one asynchronous write is outstanding on the stream, the
\* write of the response by DoWriteResponse and the writes of the queue
\* counted together.
C36_OneWriteOutstanding ==
  ~(mq_conn.resp_op # <<>> /\ mq_conn.write_op # <<>>)

\* C38: a closed connection stays closed, and no write is started on its
\* stream, by the queue or by DoWriteResponse.
C38_ClosedIsAbsorbing ==
  [][mq_conn.closed_ =>
       /\ mq_conn'.closed_
       /\ mq_conn'.started = mq_conn.started
       /\ mq_conn'.resp_op # <<>> => mq_conn.resp_op # <<>>]_vars

\* one connection from accept to close
DriverSpecInit ==
  /\ RouteTableInit /\ ServerInit /\ NoTaskInit /\ SessionInit
  /\ ContextInit /\ last_reg = <<>> /\ SetCookieInit /\ QueueInit
  /\ driver \in DriverConfigs

ConnAccepted == DriverAccepted /\ UNCHANGED outsideDriver
ConnStrandTakes == StrandTakes /\ UNCHANGED outsideDriver
ConnRunPosted == StrandRunPosted /\ UNCHANGED outsideDriver
ConnReadHeaderComplete(has_handler, read_expiry) ==
  StrandReadHeaderComplete(has_handler, read_expiry) /\ UNCHANGED outsideDriver
ConnReadBodyComplete == StrandReadBodyComplete /\ UNCHANGED outsideDriver
ConnWriteComplete == StrandWriteComplete /\ UNCHANGED outsideDriver
ConnTimerHandler == StrandTimerHandler /\ UNCHANGED outsideDriver
ConnStreamOpEnds(ec) == StreamOpEnds(ec) /\ UNCHANGED outsideDriver
ConnTimerExpires == DriverTimerExpires /\ UNCHANGED outsideDriver
ConnServerFlips == DriverServerFlips /\ UNCHANGED outsideDriver
ConnTaskDestructorBegins(keep_alive) ==
  TaskDestructorBegins(keep_alive) /\ UNCHANGED outsideDriver
ConnTaskDestructorWrites == TaskDestructorWrites /\ UNCHANGED outsideDriver

DriverNext ==
  \/ ConnAccepted
  \/ ConnStrandTakes
  \/ ConnRunPosted
  \/ \E has_handler \in BOOLEAN, read_expiry \in RouteReadExpiries :
       ConnReadHeaderComplete(has_handler, read_expiry)
  \/ ConnReadBodyComplete
  \/ ConnWriteComplete
  \/ ConnTimerHandler
  \/ \E ec \in BOOLEAN : ConnStreamOpEnds(ec)
  \/ ConnTimerExpires
  \/ ConnServerFlips
  \/ \E keep_alive \in BOOLEAN : ConnTaskDestructorBegins(keep_alive)
  \/ ConnTaskDestructorWrites

DriverSpec == DriverSpecInit /\ [][DriverNext]_vars

\* one Context used by several threads
ContextSpecInit ==
  RouteTableInit /\ ServerInit /\ NoTaskInit /\ SessionInit /\ ExtraInit

CtxSet(t, k, v) == SetAttributeEnter(t, k, v) /\ UNCHANGED outsideContext
CtxSetBody(t) == SetAttributeBody(t) /\ UNCHANGED outsideContext
CtxRead(t, op, k) == ReadEnter(t, op, k) /\ UNCHANGED outsideContext
CtxGetBody(t) == GetAttributeBody(t) /\ UNCHANGED outsideContext
CtxHasBody(t) == HasAttributeBody(t) /\ UNCHANGED outsideContext

ContextNext ==
  \/ \E t \in CtxThreads, k \in CtxKeys, v \in CtxValues : CtxSet(t, k, v)
  \/ \E t \in CtxThreads : CtxSetBody(t)
  \/ \E t \in CtxThreads, op \in {"GetAttribute", "HasAttribute"},
        k \in CtxKeys : CtxRead(t, op, k)
  \/ \E t \in CtxThreads : CtxGetBody(t)
  \/ \E t \in CtxThreads : CtxHasBody(t)

ContextSpec == ContextSpecInit /\ [][ContextNext]_vars

\* the facade's session policy setter beside Start, Stop and the gated
\* mutators
SessionTimeouts == {1000, 60000, DefaultSessionTimeout}

\* HttpServer::SetDefaultSessionTimeout: forwards to the session map
\* whatever is_running_ holds, without taking mtx_
HttpServerSetDefaultSessionTimeout(timeout) ==
  SetDefaultSessionTimeout(timeout) /\ UNCHANGED outsideSession

PolicyNext ==
  \/ \E u \in Users, n \in StartThreadCounts : StartEnter(u, n)
  \/ \E u \in Users : StartBody(u)
  \/ \E u \in Users : StopEnter(u)
  \/ \E u \in Users : StopBody(u)
  \/ \E u \in Users : StopJoin(u)
  \/ \E u \in Users, c \in FacadeMutations : MutatorEnter(u, c)
  \/ \E u \in Users : MutatorBody(u)
  \/ \E t \in SessionTimeouts : HttpServerSetDefaultSessionTimeout(t)

PolicySpec == Init /\ [][PolicyNext]_vars

\* HttpServer::Log: the message is handed to the logger
HttpServerLog(level) ==
  /\ Len(log_) < MaxLogCalls
  /\ log_' = Append(log_, level)
  /\ UNCHANGED <<task, task_refs, conn, trace, thrown, sid_returns,
                 terminated, routeVars, serverVars, sessionVars, extraVars>>

\* HttpServer::GetSession: the call is passed to the session map
HttpServerGetSession(sessionid) ==
  GetSession(sessionid) /\ UNCHANGED outsideSession

\* the facade's read operations on a server that is started and stopped
FacadeReadNext ==
  \/ \E u \in Users : StartEnter(u, 1)
  \/ \E u \in Users : StartBody(u)
  \/ \E u \in Users : StopEnter(u)
  \/ \E u \in Users : StopBody(u)
  \/ \E u \in Users : StopJoin(u)
  \/ \E u \in Users, segs \in AspectTargets : RouteCallEnter(u, "GET", segs)
  \/ \E u \in Users : RouteCallReturn(u)
  \/ HttpServerGetSession("s1")
  \/ HttpServerLog("info")

FacadeReadSpec == Init /\ [][FacadeReadNext]_vars

\* the facade's callers registering routes and looking routes up
TableAccessNext ==
  \/ \E u \in Users, n \in StartThreadCounts : StartEnter(u, n)
  \/ \E u \in Users : StartBody(u)
  \/ \E u \in Users : StopEnter(u)
  \/ \E u \in Users : StopBody(u)
  \/ \E u \in Users : StopJoin(u)
  \/ \E u \in Users, c \in FacadeMutations : MutatorEnter(u, c)
  \/ \E u \in Users : MutatorBody(u)
  \/ \E u \in Users, segs \in AspectTargets : RouteCallEnter(u, "GET", segs)
  \/ \E u \in Users : RouteCallReturn(u)

TableAccessSpec == Init /\ [][TableAccessNext]_vars

\* the session map of a running server
SessionSpecInit ==
  /\ RouteTableInit
  /\ mtx_ = [writer |-> NoThread, readers |-> {}]
  /\ is_running_ = TRUE
  /\ keep_alive_timeout_ = 4000
  /\ header_read_expiry_ = 3000
  /\ io_threads_ = 1
  /\ user_pc = [u \in Users |-> "idle"]
  /\ user_call = [u \in Users |-> <<>>]
  /\ fns = <<>>
  /\ pool_queue = <<>>
  /\ timers = {}
  /\ worker_pc = [w \in Workers |-> "idle"]
  /\ worker_fn = [w \in Workers |-> 0]
  /\ NoTaskInit
  /\ SessionInit
  /\ ExtraInit

SessionGet(s) == GetSession(s) /\ UNCHANGED outsideSession
SessionRemove(s) == RemoveSession(s) /\ UNCHANGED outsideSession
SessionSetCleaner(b) == SetBackgroundCleaner(b) /\ UNCHANGED outsideSession
SessionCleanerRun == CleanerRun /\ UNCHANGED outsideSession
SessionTimerExpires == CleanerTimerExpires /\ UNCHANGED outsideSession
SessionHandlerPosts == CleanerHandlerPosts /\ UNCHANGED outsideSession
SessionClock(d) == ClockAdvance(d) /\ UNCHANGED outsideSession

SessionNext ==
  \/ \E s \in SessionIds : SessionGet(s)
  \/ \E s \in SessionIds : SessionRemove(s)
  \/ \E b \in BOOLEAN : SessionSetCleaner(b)
  \/ SessionTimerExpires
  \/ SessionHandlerPosts
  \/ SessionCleanerRun
  \/ \E d \in ClockSteps : SessionClock(d)

SessionSpec == SessionSpecInit /\ [][SessionNext]_vars

\* the session map under every call that sets or extends an expiry
SessionTimeoutArgs == {0, 2 * DefaultSessionTimeout}
DefaultTimeoutArgs == {0, DefaultSessionTimeout}

SessionSetTimeout(s, t) == SetSessionTimeout(s, t) /\ UNCHANGED outsideSession
SessionSetDefaultTimeout(t) ==
  SetDefaultSessionTimeout(t) /\ UNCHANGED outsideSession

ExpiryNext ==
  \/ SessionGet("s1")
  \/ \E t \in SessionTimeoutArgs : SessionSetTimeout("s1", t)
  \/ \E t \in DefaultTimeoutArgs : SessionSetDefaultTimeout(t)
  \/ \E d \in ClockSteps : SessionClock(d)

ExpirySpec == SessionSpecInit /\ [][ExpiryNext]_vars

\* the cleaning passes: the session map as constructed, or as seven or ten
\* GetSession calls on one id, a millisecond apart, leave it
RECURSIVE KeysPushed(_, _)
KeysPushed(id, n) ==
  IF n = 0 THEN <<>>
  ELSE HeapPush(KeysPushed(id, n - 1),
                [id |-> id, expiry |-> DefaultSessionTimeout + n - 1])

CleanSpecInit ==
  /\ RouteTableInit
  /\ ServerInit
  /\ NoTaskInit
  /\ ExtraInit
  /\ default_timeout_ = DefaultSessionTimeout
  /\ allow_cleaner_ = FALSE
  /\ session_log = <<>>
  /\ timer_ = NewTimer
  /\ cleaner_interval_ = DefaultCleanerInterval
  /\ \/ /\ session_now = 0
        /\ map_ = <<>>
        /\ pqueue_ = <<>>
        /\ ctx_count = 0
     \/ /\ session_now = 6
        /\ map_ = ("s1" :> [context |-> 1,
                            expiry |-> DefaultSessionTimeout + 6])
        /\ pqueue_ = KeysPushed("s1", 7)
        /\ ctx_count = 1
     \/ /\ session_now = 9
        /\ map_ = ("s1" :> [context |-> 1,
                            expiry |-> DefaultSessionTimeout + 9])
        /\ pqueue_ = KeysPushed("s1", 10)
        /\ ctx_count = 1

CleanStartEnter(u) == StartEnter(u, 1)
CleanStartBody(u) == StartBody(u)

CleanNext ==
  \/ CleanStartEnter("u1")
  \/ CleanStartBody("u1")
  \/ SessionGet("s1")
  \/ SessionSetCleaner(TRUE)
  \/ SessionTimerExpires
  \/ SessionHandlerPosts
  \/ SessionCleanerRun
  \/ \E d \in ClockSteps : SessionClock(d)

CleanSpec == CleanSpecInit /\ [][CleanNext]_vars

\* the background cleaner of a server that is started and stopped
CleanerIntervals == {0, DefaultCleanerInterval}

CleanerSetInterval(i) == SetCleanerInterval(i) /\ UNCHANGED outsideSession

CleanerNext ==
  \/ \E u \in Users : StartEnter(u, 1)
  \/ \E u \in Users : StartBody(u)
  \/ \E u \in Users : StopEnter(u)
  \/ \E u \in Users : StopBody(u)
  \/ \E u \in Users : StopJoin(u)
  \/ \E b \in BOOLEAN : SessionSetCleaner(b)
  \/ \E i \in CleanerIntervals : CleanerSetInterval(i)
  \/ SessionTimerExpires
  \/ SessionHandlerPosts
  \/ SessionCleanerRun
  \/ \E d \in ClockSteps : SessionClock(d)

CleanerSpec == Init /\ [][CleanerNext]_vars

(***************************************************************************)
(* Route table properties                                                  *)
(***************************************************************************)
\* the non-empty segments ne begin with the segments of the layer path P
BeginsWith(P, ne) ==
  /\ Len(P) <= Len(ne)
  /\ \A i \in 1..Len(P) : P[i] = DefaultKey \/ P[i] = ne[i]

\* at every parametric position of P the segment is not the key of a
\* literal sibling and the parent layer is not exclusive
NotShadowed(layers, P, ne) ==
  \A i \in 1..Len(P) :
    P[i] = DefaultKey =>
      /\ GetRoute(layers, SubSeq(P, 1, i - 1), ne[i]) = Null
      /\ ~layers[SubSeq(P, 1, i - 1)].ignore_default_route

RECURSIVE ParamsAt(_, _)
ParamsAt(P, ne) ==
  IF P = <<>> THEN <<>>
  ELSE IF Head(P) = DefaultKey THEN <<Head(ne)>> \o ParamsAt(Tail(P), Tail(ne))
       ELSE ParamsAt(Tail(P), Tail(ne))

\* C3 as stated: a target that begins with the path of an exclusive route is
\* routed to that route's handler, whatever else is registered beneath it.
C3_ExclusiveWinsOverAll ==
  last_route # <<>> =>
    LET layers == entrance_[last_route[1].method]
        ne == FilterNonEmpty(last_route[1].target) IN
    \A P \in DOMAIN layers :
      (/\ layers[P].ignore_default_route
       /\ layers[P].handler # NullHandler
       /\ BeginsWith(P, ne))
      => last_route[1].result.handler = layers[P].handler

\* C3 amended: a target that begins with the path of an exclusive route E
\* and reaches E's layer is routed to E's handler unless its next segment is
\* the key of a literal child of E's layer; parametric routes beneath E are
\* never entered.
C3_ExclusiveBypassesParametric ==
  last_route # <<>> =>
    LET layers == entrance_[last_route[1].method]
        ne == FilterNonEmpty(last_route[1].target) IN
    \A P \in DOMAIN layers :
      (/\ layers[P].ignore_default_route
       /\ layers[P].handler # NullHandler
       /\ BeginsWith(P, ne)
       /\ NotShadowed(layers, P, ne)
       /\ (Len(ne) > Len(P) => GetRoute(layers, P, ne[Len(P) + 1]) = Null))
      => last_route[1].result.handler = layers[P].handler

C3_Witness ==
  /\ last_route # <<>>
  /\ \E P \in DOMAIN entrance_[last_route[1].method] :
       LET layers == entrance_[last_route[1].method]
           ne == FilterNonEmpty(last_route[1].target) IN
       /\ P # <<>>
       /\ layers[P].ignore_default_route
       /\ layers[P].handler # NullHandler
       /\ GetDefaultRoute(layers, P) # Null
       /\ layers[GetDefaultRoute(layers, P)].handler # NullHandler
       /\ BeginsWith(P, ne) /\ Len(ne) > Len(P)
       /\ last_route[1].result.handler = layers[P].handler

\* C4 as stated: a target that matches a registered template segment by
\* segment is routed to that template's handler with the captured segments as
\* parameters, whatever other templates are registered.
C4_MatchingTemplateWins ==
  last_route # <<>> =>
    LET layers == entrance_[last_route[1].method]
        ne == FilterNonEmpty(last_route[1].target) IN
    \A P \in DOMAIN layers :
      (/\ layers[P].handler # NullHandler
       /\ Len(ne) = Len(P)
       /\ BeginsWith(P, ne))
      => /\ last_route[1].result.handler = layers[P].handler
         /\ last_route[1].result.parameters = ParamsAt(P, ne)

\* C4 amended: the same, for targets whose segment at each parametric
\* position of the template is not the key of a literal sibling and whose
\* parent layer there is not exclusive.
C4_MatchingTemplateWinsUnshadowed ==
  last_route # <<>> =>
    LET layers == entrance_[last_route[1].method]
        ne == FilterNonEmpty(last_route[1].target) IN
    \A P \in DOMAIN layers :
      (/\ layers[P].handler # NullHandler
       /\ Len(ne) = Len(P)
       /\ BeginsWith(P, ne)
       /\ NotShadowed(layers, P, ne))
      => /\ last_route[1].result.handler = layers[P].handler
         /\ last_route[1].result.parameters = ParamsAt(P, ne)

C4_Witness ==
  /\ last_route # <<>>
  /\ \E P \in DOMAIN entrance_[last_route[1].method] :
       LET layers == entrance_[last_route[1].method]
           ne == FilterNonEmpty(last_route[1].target) IN
       /\ layers[P].handler # NullHandler
       /\ Len(P) = 2 /\ P[1] = DefaultKey /\ P[2] = DefaultKey
       /\ Len(ne) = 2 /\ ne[1] # ne[2]
       /\ Cardinality(DOMAIN layers) > 3
       /\ last_route[1].result.handler = layers[P].handler
       /\ last_route[1].result.parameters = ne

\* C5: where a layer has a literal child for the request segment and a
\* default child, the match descends into the literal child and captures
\* nothing: a target made of literal keys of registered layers, each with a
\* parametric sibling, gets the literal layer's handler and no parameters.
C5_LiteralPreferred ==
  last_route # <<>> =>
    LET layers == entrance_[last_route[1].method]
        segs == last_route[1].target IN
    (/\ segs \in DOMAIN layers
     /\ layers[segs].handler # NullHandler
     /\ \A i \in 1..Len(segs) : segs[i] # DefaultKey
     /\ \E i \in 1..Len(segs) :
          GetDefaultRoute(layers, SubSeq(segs, 1, i - 1)) # Null)
    => /\ last_route[1].result.handler = layers[segs].handler
       /\ last_route[1].result.parameters = <<>>

C5_Witness ==
  /\ last_route # <<>>
  /\ LET layers == entrance_[last_route[1].method]
         segs == last_route[1].target IN
     /\ Len(segs) = 1
     /\ GetRoute(layers, <<>>, segs[1]) # Null
     /\ GetDefaultRoute(layers, <<>>) # Null
     /\ layers[GetRoute(layers, <<>>, segs[1])].handler # NullHandler
     /\ layers[GetDefaultRoute(layers, <<>>)].handler # NullHandler
     /\ last_route[1].result.handler = layers[GetRoute(layers, <<>>, segs[1])].handler
     /\ last_route[1].result.parameters = <<>>

\* the aspects registered with the given scope and method, on the layer the
\* given template leads to when the scope is a route, in registration order
RECURSIVE RegisteredAspects(_, _, _, _, _)
RegisteredAspects(regs, scope, method, layers, path) ==
  IF regs = <<>> THEN <<>>
  ELSE LET r == Head(regs)
           rest == RegisteredAspects(Tail(regs), scope, method, layers, path)
       IN IF /\ r.scope = scope
             /\ scope # "global" => r.method = method
             /\ scope = "route" =>
                   GetOrCreateRouteTableLayer(layers, r.target).path = path
          THEN <<r.aspect>> \o rest ELSE rest

\* the lookup met a layer that holds a handler
RouteMatched(method, segs) ==
  LET m == MatchSegments(entrance_[method], segs) IN
    m.status # "fail" /\ entrance_[method][m.layer].handler # NullHandler

\* C13: the aspect list of a matched route holds all global aspects, then
\* all method-global aspects of the request method, then all aspects of the
\* matched layer, each group in the order of registration, whatever the
\* order in which the three kinds were registered.
C13_AspectOrder ==
  \A i \in 1..Len(last_route) :
    LET q == last_route[i]
        layers == entrance_[q.method]
        m == MatchSegments(layers, q.target)
    IN RouteMatched(q.method, q.target) =>
         q.result.aspects =
           RegisteredAspects(aspect_regs, "global", q.method, layers, m.layer)
           \o RegisteredAspects(aspect_regs, "method", q.method, layers, m.layer)
           \o RegisteredAspects(aspect_regs, "route", q.method, layers, m.layer)

\* a route-local aspect was registered first, then a method-global one, then
\* a global one, and the lookup of the route lists them in the reverse order
C13_Witness ==
  /\ Len(aspect_regs) = 3
  /\ aspect_regs[1].scope = "route" /\ aspect_regs[1].method = "GET"
  /\ aspect_regs[2].scope = "method" /\ aspect_regs[2].method = "GET"
  /\ aspect_regs[3].scope = "global"
  /\ last_route # <<>>
  /\ RouteMatched(last_route[1].method, last_route[1].target)
  /\ last_route[1].result.aspects =
       <<<<"aspect", 3>>, <<"aspect", 2>>, <<"aspect", 1>>>>

\* the segments of a request path that moved the match one layer down: as
\* many of the non-empty segments as the matched layer is deep
ConsumedSegments(layers, segs) ==
  SubSeq(FilterNonEmpty(segs), 1, Len(MatchSegments(layers, segs).layer))

\* C14: the current_location of every lookup that reached a handler is '/'
\* followed by the segment text, over exactly the consumed segments; a
\* segment that was not consumed adds nothing, not even its '/'.
C14_LocationOfConsumed ==
  \A i \in 1..Len(last_route) :
    LET q == last_route[i] IN
      RouteMatched(q.method, q.target) =>
        q.result.current_location =
          JoinPath(ConsumedSegments(entrance_[q.method], q.target))

\* what the registrations of the route table write to
tableVars == <<entrance_, global_aspects_, global_specific_aspects_,
               default_handler_, default_max_body_size_, default_read_expiry_,
               default_write_expiry_>>

\* C15: a registration (AddRouteEntry, AddExclusiveRouteEntry, AddAspect,
\* SetMaxBodySize, SetReadExpiry, SetWriteExpiry) on a template that is not
\* valid returns false and leaves the route table as it was: no layer is
\* created and no handler, aspect or limit installed.
C15_InvalidTemplateRejected ==
  [][\A i \in 1..Len(last_reg') :
       last_reg'[i].target \in InvalidTemplates =>
         ~last_reg'[i].ok /\ tableVars' = tableVars]_vars

\* an aspect registration on the template of 2049 characters has returned
\* false on a table that holds an exclusive route with an aspect and limits
C15_Witness ==
  /\ last_reg # <<>>
  /\ last_reg[1].op = "AddAspect"
  /\ last_reg[1].target = LongTemplate
  /\ ~last_reg[1].ok
  /\ DOMAIN entrance_["GET"] = {<<>>, <<<<"a">>>>}
  /\ entrance_["GET"][<<<<"a">>>>].handler = HandlerOf("exclusive", TemplateOf(<<<<"a">>>>))
  /\ entrance_["GET"][<<<<"a">>>>].aspects # <<>>
  /\ entrance_["GET"][<<<<"a">>>>].max_body_size = 1000

(***************************************************************************)
(* Server facade properties                                                *)
(***************************************************************************)
configVars == <<entrance_, global_aspects_, global_specific_aspects_,
                default_handler_, default_max_body_size_, default_read_expiry_,
                default_write_expiry_, keep_alive_timeout_, header_read_expiry_>>

\* what the call has changed when it took effect
MutationApplied(call) ==
  CASE call[1] = "SetDefaultHandler" -> default_handler_' = call[2]
    [] call[1] = "SetKeepAliveTimeout" -> keep_alive_timeout_' = call[2]
    [] call[1] = "AddRouteEntry" ->
         entrance_' = EntranceAfterAdd(call[2], call[3],
                                       HandlerOf("route", call[3]), FALSE)

\* C1: a facade mutation takes effect if and only if the server is stopped
\* when the call runs: no step taken while the server is running changes the
\* route table, the defaults or what Route returns, and a mutator that runs
\* while the server is stopped leaves its argument in place, under every
\* interleaving of callers with Start and Stop.
C1_MutationIffStopped ==
  [][/\ is_running_ =>
          /\ UNCHANGED configVars
          /\ \A segs \in {<<>>, <<<<"a">>>>} :
               Route("GET", segs)' = Route("GET", segs)
     /\ \A u \in Users :
          (user_pc[u] = "mut" /\ user_pc'[u] = "idle" /\ ~is_running_)
          => MutationApplied(user_call[u])]_vars

\* a mutator is inside its call while the server runs, after earlier calls
\* made while stopped have replaced the default handler and added a route
C1_Witness ==
  /\ is_running_
  /\ default_handler_ = <<"h1">>
  /\ Route("GET", <<<<"a">>>>).handler = HandlerOf("route", TemplateOf(<<<<"a">>>>))
  /\ keep_alive_timeout_ = 4000
  /\ \E u \in Users :
       /\ user_pc[u] = "mut"
       /\ user_call[u] = <<"SetKeepAliveTimeout", 1000>>

\* Stop waits in thread_pool_->join() holding the unique lock while every
\* pool thread runs a function that waits for the shared lock inside Post:
\* neither side can ever take another step
PoolBlockedForever ==
  /\ \E u \in Users : user_pc[u] = "stop_join"
  /\ \A w \in Workers :
       worker_pc[w] = "run" /\ fns[worker_fn[w]].kind = "repost"

\* C10: every function accepted by Post while the server was running is
\* executed exactly once: never more than once, and once the pool can take
\* no further step none is left that has not run.
C10_PostedRunsExactlyOnce ==
  /\ \A i \in 1..Len(fns) : fns[i].accepted => fns[i].executed <= 1
  /\ PoolBlockedForever =>
       \A i \in 1..Len(fns) : fns[i].accepted => fns[i].executed = 1

\* a pool thread is inside a function whose next step is HttpServer::Post,
\* which waits for the shared lock
WaitsForSharedLock(w) ==
  worker_pc[w] = "run" /\ fns[worker_fn[w]].kind = "repost"

\* C34: Stop returns in every execution: no state is reached in which Stop
\* waits in thread_pool_->join(), holding the unique lock, for a pool thread
\* that waits for that lock (from such a state neither can ever go on).
C34_StopReturns ==
  \A u \in Users :
    user_pc[u] = "stop_join" => \A w \in Workers : ~WaitsForSharedLock(w)

\* function i is waiting on a timer, waiting in the pool or being run
InPool(i) ==
  \/ i \in timers
  \/ \E k \in 1..Len(pool_queue) : pool_queue[k] = i
  \/ \E w \in DOMAIN worker_pc : worker_pc[w] # "idle" /\ worker_fn[w] = i

\* C11: a function handed to Post or SetTimer while the server was stopped
\* is never executed and is held nowhere from where it could be executed
\* later, whatever Start, Stop, Post and SetTimer calls follow.
C11_StoppedCallsNeverRun ==
  \A i \in 1..Len(fns) :
    ~fns[i].accepted => fns[i].executed = 0 /\ ~InPool(i)

\* a Post and a SetTimer made while stopped were followed by a Start and by
\* a SetTimer whose function has run; the two earlier functions have not
C11_Witness ==
  /\ is_running_
  /\ \E i, j, k \in 1..Len(fns) :
       /\ i < k /\ j < k
       /\ fns[i].via = "Post" /\ ~fns[i].accepted /\ fns[i].executed = 0
       /\ fns[j].via = "SetTimer" /\ ~fns[j].accepted /\ fns[j].executed = 0
       /\ fns[k].via = "SetTimer" /\ fns[k].accepted /\ fns[k].executed = 1

ExpectedSteps(n) ==
  [i \in 1..(2 * n + 1) |->
     IF i <= n THEN <<"pre", i - 1>>
     ELSE IF i = n + 1 THEN <<"handler">>
     ELSE <<"post", 2 * n + 1 - i>>]

ExpectedTrace(n) ==
  [j \in 1..(2 * (2 * n + 1)) |->
     <<IF j % 2 = 1 THEN "begin" ELSE "end", ExpectedSteps(n)[(j + 1) \div 2]>>]

NoSessionCookieInRequest ==
  \A i \in 1..Len(task.req_cookies) :
    ToLowerString(task.req_cookies[i][1]) # "sessionid"

\* C7: for a request without a sessionId cookie, every GetSessionId call
\* returns the one generated, non-empty id, and once the task is destroyed
\* (connection not managed manually) its response has exactly one Set-Cookie
\* for sessionId, carrying that id.
C7_SessionIdGeneratedOnce ==
  NoSessionCookieInRequest =>
    /\ \A v \in sid_returns : v = GenerateSessionId
    /\ (~task.alive /\ ~task.manual_connection_management_ /\ sid_returns # {})
       => LET sc == task.resp_set_cookie
              own == {i \in 1..Len(sc) : sc[i][1] = "sessionId"} IN
          /\ Cardinality(own) = 1
          /\ \A i \in own : sc[i][2] = GenerateSessionId

\* the cookies of the request whose name is sessionId in any letter case
SessionCookiesInRequest ==
  {i \in 1..Len(task.req_cookies) :
     ToLowerString(task.req_cookies[i][1]) = "sessionid"}

\* C17: when the Cookie header holds a cookie whose name is sessionId in any
\* letter case, every GetSessionId call returns the value of that cookie, and
\* the response written when the task is destroyed has no Set-Cookie for
\* sessionId.
C17_ExistingSessionCookieUsed ==
  \A i \in SessionCookiesInRequest :
    /\ \A v \in sid_returns : v = task.req_cookies[i][2]
    /\ ~task.alive =>
         \A j \in 1..Len(task.resp_set_cookie) :
           task.resp_set_cookie[j][1] # "sessionId"

ManualRequested ==
  \E i \in 1..Len(task.manual_calls) : task.manual_calls[i]

\* C8: once SetManualConnectionManagement(true) has been called the flag
\* stays set whatever is passed later, and the destruction of the task
\* leaves the connection as it was: no response handed over, no new cycle,
\* no close.
C8_ManualLatches ==
  [][/\ ManualRequested' => task'.manual_connection_management_
     /\ (task.alive /\ ~task'.alive /\ ManualRequested) => UNCHANGED conn]_vars

C8_Witness ==
  /\ ~task.alive
  /\ task.manual_calls = <<TRUE, FALSE>>
  /\ task.manual_connection_management_
  /\ conn = NewConn

\* C9: whenever the handler or an aspect call has thrown, the exception was
\* caught and logged at warn level and the process goes on with the chain.
C9_ThrowCaughtAndLogged ==
  thrown # {} =>
    /\ ~terminated
    /\ Len(log_) = Cardinality(thrown)
    /\ \A i \in 1..Len(log_) : log_[i] = "warn"

(***************************************************************************)
(* Session map properties                                                  *)
(***************************************************************************)
\* entry j of the log is the call on the same id that follows entry i
NextCallOnId(i, j) ==
  /\ i < j
  /\ session_log[i].id = session_log[j].id
  /\ \A k \in (i + 1)..(j - 1) : session_log[k].id # session_log[i].id

\* C6: of two consecutive GetSession calls on one id, the later returns the
\* Context of the earlier if it comes within the window the earlier
\* established, and a Context never handed out before if it comes after that
\* window has passed.
C6_SameContextWithinWindow ==
  \A i, j \in 1..Len(session_log) :
    (/\ NextCallOnId(i, j)
     /\ session_log[i].op = "get"
     /\ session_log[j].op = "get")
    => IF session_log[j].at < session_log[i].until
       THEN session_log[j].context = session_log[i].context
       ELSE \A k \in 1..(j - 1) : session_log[k].context # session_log[j].context

\* C16: a change of the session policy made through the facade while the
\* server is running has no effect: the default timeout of the session map
\* is the same after the step as before.
C16_SessionPolicyFrozenWhileRunning ==
  [][is_running_ => default_timeout_' = default_timeout_]_vars

\* the callers that are inside a mutation of the route table, and those
\* that are inside a lookup
TableMutators ==
  {u \in Users : /\ user_pc[u] = "mut"
                 /\ ~is_running_
                 /\ user_call[u][1] \in {"AddRouteEntry", "SetDefaultHandler"}}
TableReaders == {u \in Users : user_pc[u] = "route"}

\* C26: at most one caller is inside a mutation of the route table, and
\* while one is, no caller is inside Route.
C26_RouteTableExclusive ==
  /\ Cardinality(TableMutators) <= 1
  /\ TableMutators # {} => TableReaders = {}

\* the number of copies of the entry e the heap h holds
HeapCount(h, e) == Cardinality({i \in 1..Len(h) : h[i] = e})

\* the step is a call the log records; LastCall is its record
CallStep == Len(session_log') = Len(session_log) + 1
LastCall == session_log'[Len(session_log')]

\* the step pushed a heap entry (a pushed entry expires after now, so the
\* cleaning at the end of the call leaves it in the heap)
PushedEntry(e) == HeapCount(pqueue_', e) = HeapCount(pqueue_, e) + 1
PushedAny == \E i \in 1..Len(pqueue_') : PushedEntry(pqueue_'[i])

\* C27: when GetSession finds no live entry for the id (absent, or present
\* with expiry <= now), then on return the map entry of the id holds the
\* fresh Context that was returned, with expiry now + max(default timeout,
\* 1 second), and a heap entry of the id with that expiry has been pushed.
C27_GetInstallsFresh ==
  [][(/\ CallStep
      /\ LastCall.op = "get"
      /\ ~(LastCall.id \in DOMAIN map_ /\ map_[LastCall.id].expiry > session_now))
     => LET id == LastCall.id
            expiry == session_now + Max(default_timeout_, kMinSessionTimeout)
        IN /\ LastCall.context > ctx_count
           /\ id \in DOMAIN map_'
           /\ map_'[id] = [context |-> LastCall.context, expiry |-> expiry]
           /\ PushedEntry([id |-> id, expiry |-> expiry])]_vars

\* C28: while the entry of a session id stays in the map its expiry never
\* decreases, and SetSessionTimeout(id, t) changes the expiry or pushes a
\* heap entry only when now + max(t, 1 second) is strictly greater than the
\* expiry the entry had.
C28_ExpiryNeverDecreases ==
  [][/\ \A s \in DOMAIN map_ \cap DOMAIN map_' :
          map_'[s].expiry >= map_[s].expiry
     /\ (/\ CallStep
         /\ LastCall.op = "settimeout"
         /\ LastCall.id \in DOMAIN map_ \cap DOMAIN map_'
         /\ map_'[LastCall.id].expiry # map_[LastCall.id].expiry \/ PushedAny)
        => session_now + Max(LastCall.timeout, kMinSessionTimeout)
             > map_[LastCall.id].expiry]_vars

\* a SetSessionTimeout whose candidate was below the expiry of the entry has
\* just returned and the entry has the expiry it had
C28_Witness ==
  /\ session_log # <<>>
  /\ LET c == session_log[Len(session_log)]
     IN /\ c.op = "settimeout"
        /\ c.at = session_now
        /\ c.id \in DOMAIN map_
        /\ map_[c.id].expiry > c.at + Max(c.timeout, kMinSessionTimeout)
        /\ \E i \in 1..(Len(session_log) - 1) :
             /\ session_log[i].op = "get"
             /\ session_log[i].context = map_[c.id].context

\* C29: no step removes a session entry whose expiry is later than now (the
\* cleaning passes of the calls and of the background cleaner erase a map
\* entry only when its expiry equals the popped key's, so the stale key of
\* an extended session leaves the session in the map).
C29_NoLiveEntryReaped ==
  [][\A s \in DOMAIN map_ \ DOMAIN map_' : map_[s].expiry <= session_now]_vars

\* a session was extended, the key of its first expiry has fallen due and
\* has been popped, and the session is in the map with its later expiry
C29_Witness ==
  \E i, j \in 1..Len(session_log) :
    /\ i < j
    /\ session_log[i].op = "get"
    /\ session_log[j].op = "get"
    /\ session_log[i].id = session_log[j].id
    /\ session_log[i].context = session_log[j].context
    /\ session_log[i].until <= session_now
    /\ session_log[i].id \in DOMAIN map_
    /\ map_[session_log[i].id].context = session_log[i].context
    /\ map_[session_log[i].id].expiry > session_now
    /\ HeapCount(pqueue_, [id |-> session_log[i].id,
                           expiry |-> session_log[i].until]) = 0

\* C31: the background cleaning function runs the thorough clean exactly
\* when heap size > 8 x map size, and the short clean otherwise, the case
\* heap size = 8 x map size included.
C31_ThoroughOnlyAbove ==
  [][timer_'.posted < timer_.posted
     => (CleanerPass(map_, pqueue_) = "thorough"
           <=> Len(pqueue_) > 8 * Cardinality(DOMAIN map_))]_vars

\* C32: a short-clean pass pops no key unless heap size > 2 x map size, pops
\* at most 8 keys, and every key it pops has expiry <= now.
C32_ShortCleanBounded ==
  LET r == ShortClean(map_, pqueue_, session_now)
  IN /\ Len(pqueue_) <= 2 * Cardinality(DOMAIN map_)
          => r = [map |-> map_, pqueue |-> pqueue_]
     /\ Len(pqueue_) - Len(r.pqueue) <= 8
     /\ \A i \in 1..Len(pqueue_) :
          HeapCount(pqueue_, pqueue_[i]) > HeapCount(r.pqueue, pqueue_[i])
            => pqueue_[i].expiry <= session_now

\* a GetSession has just returned and its short-clean pass stopped at 8
\* keys: the heap is still more than twice the map and its top is due
C32_Witness ==
  /\ session_log # <<>>
  /\ session_log[Len(session_log)].at = session_now
  /\ Len(pqueue_) > 2 * Cardinality(DOMAIN map_)
  /\ HeapTop(pqueue_).expiry <= session_now
  /\ ctx_count = 2

\* C30: while the background cleaner is enabled and the server runs, a
\* cleaning pass is on its way (the timer waits, or its handler or the
\* cleaning function it posted is about to run, after which the timer is
\* armed again), and the timer never waits less than 1 second.
C30_CleanerRearmed ==
  /\ (allow_cleaner_ /\ is_running_)
       => (timer_.wait = "pending" \/ timer_.handlers > 0 \/ timer_.posted > 0)
  /\ timer_.wait = "pending" => timer_.expiry - timer_.armed_at >= kMinSessionTimeout

\* the session ids whose entry is in the map with its expiry passed
ExpiredEntries == {s \in DOMAIN map_ : map_[s].expiry <= session_now}

\* C39: with the background cleaner enabled and the server running every
\* expired entry is removed in the end, without further session calls: a
\* pass of the cleaning function that finds an expired entry in the map
\* pops a key (a pass that pops none leaves the map and the heap as they
\* were, and every later pass finds the same sizes and does the same).
C39_ExpiredEntryReaped ==
  [][(/\ timer_'.posted < timer_.posted
      /\ allow_cleaner_ /\ is_running_
      /\ ExpiredEntries # {})
     => Len(pqueue_') < Len(pqueue_)]_vars

\* C40: once the expiry of a session has passed, no later GetSession returns
\* the Context the session had: if call n is the first after call k to
\* concern the Context of k, and a GetSession at or after n returned that
\* Context, then n was made before the expiry that k left.
C40_ExpiredContextNeverReturned ==
  \A k, n, j \in 1..Len(session_log) :
    (/\ k < n /\ n <= j
     /\ session_log[n].context = session_log[k].context
     /\ session_log[j].context = session_log[k].context
     /\ session_log[j].op = "get"
     /\ \A i \in (k + 1)..(n - 1) :
          session_log[i].context # session_log[k].context)
    => session_log[n].at < session_log[k].until

(***************************************************************************)
(* Attribute map properties                                                *)
(***************************************************************************)
\* C12: every returned GetAttribute(k) gave either null, and then no
\* SetAttribute on k had returned before the call began, or an attribute
\* passed to some SetAttribute on k; and every GetAttribute or HasAttribute
\* on k that began after a SetAttribute on k had returned found the key.
C12_ContextAtomic ==
  \A i \in 1..Len(ctx_returns) :
    LET r == ctx_returns[i] IN
      /\ r.op = "GetAttribute" =>
            /\ r.result = Null => ~r.set_before
            /\ r.result # Null => r.result \in ctx_passed[r.key]
      /\ r.op = "HasAttribute" => (r.set_before => r.result)

\* a key was set twice with different attributes; a GetAttribute that began
\* before any set returned gave null, a later GetAttribute gave an attribute
\* and a HasAttribute found the key, while the other thread is setting it
\* once more
C12_Witness ==
  \E k \in CtxKeys :
    /\ ctx_passed[k] = CtxValues
    /\ Len(ctx_returns) = 3
    /\ \A i \in 1..3 : ctx_returns[i].key = k
    /\ ctx_returns[1].op = "GetAttribute"
    /\ ~ctx_returns[1].set_before /\ ctx_returns[1].result = Null
    /\ ctx_returns[2].op = "GetAttribute"
    /\ ctx_returns[2].set_before /\ ctx_returns[2].result # Null
    /\ ctx_returns[3].op = "HasAttribute"
    /\ ctx_returns[3].set_before /\ ctx_returns[3].result = TRUE
    /\ \E t \in CtxThreads : ctx_pc[t] = "set" /\ ctx_call[t][2] = k

(***************************************************************************)
(* Set-Cookie builder properties                                           *)
(***************************************************************************)
\* the attributes of a builder that are present, each as it is to be
\* written, in the order Expires, Path, Domain, Max-Age, SameSite, Secure,
\* HttpOnly
PresentAttributes(c) ==
  (IF HasText(c.expiry_) THEN <<<<"Expires=", c.expiry_[1]>>>> ELSE <<>>)
  \o (IF HasText(c.path_) THEN <<<<"Path=", c.path_[1]>>>> ELSE <<>>)
  \o (IF HasText(c.domain_) THEN <<<<"Domain=", c.domain_[1]>>>> ELSE <<>>)
  \o (IF c.max_age_ # <<>>
      THEN <<<<"Max-Age=", Int64ToString(c.max_age_[1])>>>> ELSE <<>>)
  \o (IF c.same_site_ # <<>> THEN <<<<"SameSite=", c.same_site_[1]>>>> ELSE <<>>)
  \o (IF c.same_site_ = <<"None">> \/ c.secure_ = <<TRUE>>
      THEN <<<<"Secure">>>> ELSE <<>>)
  \o (IF c.http_only_ = <<TRUE>> THEN <<<<"HttpOnly">>>> ELSE <<>>)

\* each attribute behind the separator "; "
RECURSIVE JoinAttributes(_)
JoinAttributes(attrs) ==
  IF attrs = <<>> THEN <<>>
  ELSE <<";", " ">> \o Head(attrs) \o JoinAttributes(Tail(attrs))

\* C18: the string ToString returns for a builder whose name and value are
\* not empty is the name, '=', the value, and then every present attribute
\* behind a "; ", with nothing after the last one.
C18_SetCookieForm ==
  (cookie_string # <<>> /\ HasText(cookie.name_) /\ HasText(cookie.value_)) =>
    cookie_string[1] =
      <<cookie.name_[1], "=", cookie.value_[1]>>
      \o JoinAttributes(PresentAttributes(cookie))

(***************************************************************************)
(* Streamed response queue properties                                      *)
(***************************************************************************)
IsPrefix(a, b) == Len(a) <= Len(b) /\ a = SubSeq(b, 1, Len(a))

\* C19: while the queue is not dead, the writes that were started are, in
\* order and each once, the first messages of the order in which the
\* enqueues ran on the strand; the messages on the wire are the first of
\* those; and a write is started only when every write started before it has
\* ended, so at most one is being carried out.
C19_WritesInEnqueueOrder ==
  ~mq_conn.connection_dead_ =>
    /\ IsPrefix(mq_conn.started, enq_log)
    /\ IsPrefix(wire, mq_conn.started)
    /\ Len(mq_conn.started) <= Len(wire) + 1
    /\ mq_conn.write_op # <<>> =>
         /\ Len(mq_conn.started) = Len(wire) + 1
         /\ mq_conn.write_op[1].id = mq_conn.started[Len(mq_conn.started)]

\* three messages were enqueued and written one after the other, and all
\* three are on the wire of a queue that is not dead
C19_Witness ==
  /\ ~mq_conn.connection_dead_
  /\ Len(wire) = 3
  /\ wire = SubSeq(enq_log, 1, 3)
  /\ mq_conn.queue_ = <<>>
  /\ ~mq_conn.is_writing_

\* C20: when ClearMessage has returned, every message that was submitted
\* through AddHeader or AddBody before the call has been sent.
C20_NothingUnsentAfterClear ==
  last_clear # <<>> => last_clear[1] = {}

\* C21: no message that was submitted through AddHeader or AddBody after the
\* queue was marked dead is ever in the queue or handed to the stream.
C21_EnqueueAfterDeathDropped ==
  /\ \A i \in 1..Len(mq_conn.queue_) : ~mq_conn.queue_[i].after_dead
  /\ mq_conn.write_op # <<>> => ~mq_conn.write_op[1].after_dead

WriteCompleteOps == {"BodyWriteComplete", "HeaderWriteComplete"}

\* C22: when the completion handler of a write that ended with an error has
\* run, the connection is closed, the queue is dead, and no thread is left
\* blocked in Wait: each one is awake with a condition that lets it return.
C22_WriteErrorReleasesWaiters ==
  [][(/\ strand_ # <<>>
      /\ Head(strand_).op \in WriteCompleteOps
      /\ Head(strand_).ec
      /\ Len(strand_') < Len(strand_))
     => /\ mq_conn'.closed_
        /\ mq_conn'.connection_dead_
        /\ WaitCondition(mq_conn')
        /\ \A t \in QueueThreads : mq_pc'[t] # "asleep"]_vars

\* the handler of a failed write has run, with the failed message still in
\* the queue, and a thread that is in Wait for messages it submitted is awake
\* to test its condition
C22_Witness ==
  /\ mq_conn.connection_dead_ /\ mq_conn.closed_
  /\ mq_conn.queue_ # <<>>
  /\ strand_ = <<>> /\ mq_conn.write_op = <<>>
  /\ Len(wire) < Len(mq_conn.started)
  /\ \E t \in CycleThreads : mq_pc[t] = "ClearMessage" /\ clear_before[t] # {}

(***************************************************************************)
(* Connection driver properties                                            *)
(***************************************************************************)
\* the operations on the connection that are being carried out, each with
\* where it runs
ConnectionOps ==
  (IF driver.running # <<>>
   THEN {[op |-> driver.running[1].h, on |-> "strand"]} ELSE {})
  \cup (IF driver.task = "finalizing"
        THEN {[op |-> "DoWriteResponse", on |-> "pool"]} ELSE {})

\* C23: every operation on the connection that is being carried out runs on
\* the connection's strand, and there is at most one of them.
C23_ConnectionOpsOnStrand ==
  /\ \A o \in ConnectionOps : o.on = "strand"
  /\ Cardinality(ConnectionOps) <= 1

\* the strand finishes the handler h in this step
Finishes(h) == Runs(h) /\ driver'.running = <<>>

ReadOps == {"read_header", "read_body"}

\* a closed connection stays closed and starts no read
ClosedNeverReads ==
  driver.closed_ =>
    /\ driver'.closed_
    /\ driver'.io_op \in ReadOps => driver'.io_op = driver.io_op

\* the connection has begun a new cycle: fresh parser, empty route result,
\* and the handler that reads the next header on the strand
NewCycle(d) ==
  /\ ~d.closed_
  /\ d.parser_ = "fresh"
  /\ d.route_result_ = <<>>
  /\ d.strand # <<>> /\ d.strand[Len(d.strand)].h = "Run"

C25_KeepAliveDeadline ==
  (driver.after_cycle /\ driver.io_op = "read_header" /\ driver.timer_ # <<>>)
    => driver.timer_[1] = driver.keep_alive_timeout_ + driver.header_read_expiry_

\* the connection awaits a read: one is outstanding on the stream, or its
\* completion handler or the handler that starts it waits on the strand
ReadAwaited(d) ==
  \/ d.io_op \in ReadOps
  \/ \E i \in 1..Len(d.strand) : d.strand[i].h \in {"ReadHeader", "ReadBody", "Run"}

\* C37: a timer's expiry closes the connection only while the read it guards
\* is awaited: once that read has completed and its handler has cancelled
\* the timer, no handler of the timer closes the connection.
C37_CancelledTimerNeverCloses ==
  [][(Finishes("Timer") /\ ~driver.closed_ /\ driver'.closed_)
       => ReadAwaited(driver)]_vars

====
